---- MODULE Spec2Model ----
(***************************************************************************)
(* Virtual try-on overlay renderer (src/app.js): calibration, overlay      *)
(* fitting, orientation smoothing and the draw scheduling of the camera /  *)
(* still-image session.                                                    *)
(*                                                                         *)
(* Numbers.  JavaScript numbers are modelled as extended rationals         *)
(* [n, d]: d > 0 is the rational n/d in lowest terms, 1/0 and -1/0 are     *)
(* +Infinity and -Infinity, 0/0 is NaN.  Arithmetic is exact (no           *)
(* floating-point rounding).  Angles are kept in units of pi.              *)
(***************************************************************************)
EXTENDS Integers, Sequences, FiniteSets, TLC

\* null (and undefined); every nullable value of the model is a record
Null == [null |-> TRUE]

----------------------------------------------------------------------------
(* Extended rational arithmetic                                            *)

Abs(i) == IF i < 0 THEN -i ELSE i

Sign(i) == IF i < 0 THEN -1 ELSE IF i > 0 THEN 1 ELSE 0

RECURSIVE GCD(_, _)
GCD(a, b) == IF b = 0 THEN a ELSE GCD(b, a % b)

Reduced(n, d, g) == [n |-> n \div g, d |-> d \div g]

Norm(n, d) ==
  IF d = 0 THEN [n |-> Sign(n), d |-> 0]
  ELSE IF d < 0 THEN Reduced(-n, -d, GCD(Abs(n), -d))
  ELSE Reduced(n, d, GCD(Abs(n), d))

Q(n, d) == Norm(n, d)

Num(i) == [n |-> i, d |-> 1]

NaN == [n |-> 0, d |-> 0]

Infinity == [n |-> 1, d |-> 0]

IsNaN(a) == a.n = 0 /\ a.d = 0

IsFinite(a) == a.d # 0

Mul(a, b) == Norm(a.n * b.n, a.d * b.d)

Div(a, b) ==
  IF b.n < 0 THEN Norm(-(a.n * b.d), -(a.d * b.n)) ELSE Norm(a.n * b.d, a.d * b.n)

Neg(a) == [n |-> -a.n, d |-> a.d]

\* a sum with an infinite or NaN operand
AddSpecial(a, b) ==
  IF IsNaN(a) \/ IsNaN(b) THEN NaN
  ELSE IF a.d = 0 /\ b.d = 0 THEN (IF a.n = b.n THEN a ELSE NaN)
  ELSE IF a.d = 0 THEN a
  ELSE b

\* a sum of two finite numbers over the least common denominator (g is the gcd of
\* the denominators)
AddOver(a, b, g) == Norm(a.n * (b.d \div g) + b.n * (a.d \div g), (a.d \div g) * b.d)

Add(a, b) == IF a.d = 0 \/ b.d = 0 THEN AddSpecial(a, b) ELSE AddOver(a, b, GCD(a.d, b.d))

Sub(a, b) == Add(a, Neg(b))

LtSpecial(a, b) ==
  IF IsNaN(a) \/ IsNaN(b) THEN FALSE
  ELSE IF a.d = 0 /\ b.d = 0 THEN a.n < b.n
  ELSE IF a.d = 0 THEN a.n < 0
  ELSE b.n > 0

LtOver(a, b, g) == a.n * (b.d \div g) < b.n * (a.d \div g)

\* a < b as JavaScript compares numbers: false when either side is NaN
Lt(a, b) == IF a.d = 0 \/ b.d = 0 THEN LtSpecial(a, b) ELSE LtOver(a, b, GCD(a.d, b.d))

Le(a, b) == ~IsNaN(a) /\ ~IsNaN(b) /\ ~Lt(b, a)

\* a === b on numbers
NumEq(a, b) == ~IsNaN(a) /\ ~IsNaN(b) /\ a = b

MathMin(a, b) == IF IsNaN(a) \/ IsNaN(b) THEN NaN ELSE IF Lt(b, a) THEN b ELSE a

MathMax(a, b) == IF IsNaN(a) \/ IsNaN(b) THEN NaN ELSE IF Lt(a, b) THEN b ELSE a

\* Math.max(lo, Math.min(hi, v))
Clamp(lo, hi, v) == MathMax(lo, MathMin(hi, v))

MathAbs(a) == [n |-> Abs(a.n), d |-> a.d]

RECURSIVE SqrtIter(_, _)
SqrtIter(n, x) == IF (x + n \div x) \div 2 >= x THEN x ELSE SqrtIter(n, (x + n \div x) \div 2)

\* Exact integer square root (Newton's iteration).  The inputs of the model are
\* chosen so that every radicand is a perfect square; any other radicand has no
\* value here.
ISqrt(n) == CHOOSE x \in {IF n = 0 THEN 0 ELSE SqrtIter(n, n)} : x * x = n

MathSqrt(a) ==
  IF IsNaN(a) \/ a.n < 0 THEN NaN
  ELSE IF ~IsFinite(a) THEN Infinity
  ELSE [n |-> ISqrt(a.n), d |-> ISqrt(a.d)]

\* Math.sqrt(dx * dx + dy * dy)
Hypot(dx, dy) == MathSqrt(Add(Mul(dx, dx), Mul(dy, dy)))

\* Math.atan2(dy, dx) / pi on the eight compass directions (and 0 at the origin)
Atan2Pi(dy, dx) ==
  CASE dy.n = 0 /\ dx.n >= 0 -> Num(0)
    [] dy.n = 0 /\ dx.n < 0  -> Num(1)
    [] dx.n = 0 /\ dy.n > 0  -> Q(1, 2)
    [] dx.n = 0 /\ dy.n < 0  -> Q(-1, 2)
    [] MathAbs(dy) = MathAbs(dx) /\ dx.n > 0 /\ dy.n > 0 -> Q(1, 4)
    [] MathAbs(dy) = MathAbs(dx) /\ dx.n > 0 /\ dy.n < 0 -> Q(-1, 4)
    [] MathAbs(dy) = MathAbs(dx) /\ dx.n < 0 /\ dy.n > 0 -> Q(3, 4)
    [] MathAbs(dy) = MathAbs(dx) /\ dx.n < 0 /\ dy.n < 0 -> Q(-3, 4)

\* JavaScript truthiness of a number-or-null: null, 0 and NaN are falsy
Truthy(v) == v # Null /\ v.n # 0

Half(a) == Div(a, Num(2))

Mid(a, b) == Div(Add(a, b), Num(2))

----------------------------------------------------------------------------
(* Landmark sets.  A landmark set is [len, pts]: len is the length of the  *)
(* array the detector delivered and pts gives the normalised point at each *)
(* index the program reads (KeyIdx); the points at indices 0 and 2 stand   *)
(* for the face outline.  An index at or above len is not in the array.    *)

KeyIdx == {0, 1, 2, 10, 33, 133, 175, 234, 263, 362, 454}

\* the same indices in array order
KeySeq == <<0, 1, 2, 10, 33, 133, 175, 234, 263, 362, 454>>

\* the outcome of a call that ends in an uncaught TypeError
TypeError == [error |-> "TypeError"]

\* src/app.js getLandmark.  Below 0 the guard `index >= landmarks.length` is false
\* and landmarks[index] is undefined, so reading its .x throws.
getLandmark(landmarks, index, canvasWidth, canvasHeight) ==
  IF landmarks = Null \/ index >= landmarks.len THEN Null
  ELSE IF index < 0 THEN TypeError
  ELSE [x |-> Mul(landmarks.pts[index].x, Num(canvasWidth)),
        y |-> Mul(landmarks.pts[index].y, Num(canvasHeight))]

\* a distance that checks only its first argument for null
calculateDistanceHalfGuarded(p1, p2) ==
  IF p1 = Null THEN Num(0)
  ELSE IF p2 = Null THEN Hypot(p1.x, p1.y)
  ELSE Hypot(Sub(p2.x, p1.x), Sub(p2.y, p1.y))

\* src/app.js calculateDistance
calculateDistance(p1, p2) ==
  IF p1 = Null \/ p2 = Null THEN Num(0)
  ELSE Hypot(Sub(p2.x, p1.x), Sub(p2.y, p1.y))

MinOf(S) == CHOOSE a \in S : \A b \in S : Le(a, b)

MaxOf(S) == CHOOSE a \in S : \A b \in S : Le(b, a)

\* { x: minX, y: minY, width: maxX - minX, height: maxY - minY }
boxOf(minX, maxX, minY, maxY) ==
  [x |-> minX, y |-> minY, width |-> Sub(maxX, minX), height |-> Sub(maxY, minY)]

\* landmark.x * width or landmark.y * height
Coord(landmarks, i, axis, extent) ==
  Mul(IF axis = "x" THEN landmarks.pts[i].x ELSE landmarks.pts[i].y, Num(extent))

\* the forEach of calculateFaceBox from position k of the array on:
\* min = Math.min(min, coordinate)
RECURSIVE runningMin(_, _, _, _, _)
runningMin(min, landmarks, axis, extent, k) ==
  IF k > Len(KeySeq) \/ KeySeq[k] >= landmarks.len THEN min
  ELSE runningMin(MathMin(min, Coord(landmarks, KeySeq[k], axis, extent)),
                  landmarks, axis, extent, k + 1)

\* max = Math.max(max, coordinate)
RECURSIVE runningMax(_, _, _, _, _)
runningMax(max, landmarks, axis, extent, k) ==
  IF k > Len(KeySeq) \/ KeySeq[k] >= landmarks.len THEN max
  ELSE runningMax(MathMax(max, Coord(landmarks, KeySeq[k], axis, extent)),
                  landmarks, axis, extent, k + 1)

\* a face box whose running minima start at 0 and maxima at the canvas size
calculateFaceBoxFromCanvas(landmarks, width, height) ==
  boxOf(runningMin(Num(0), landmarks, "x", width, 1),
        runningMax(Num(width), landmarks, "x", width, 1),
        runningMin(Num(0), landmarks, "y", height, 1),
        runningMax(Num(height), landmarks, "y", height, 1))

\* src/app.js calculateFaceBox: running min / max over every landmark of the array
calculateFaceBox(landmarks, width, height) ==
  boxOf(runningMin(Num(width), landmarks, "x", width, 1),
        runningMax(Num(0), landmarks, "x", width, 1),
        runningMin(Num(height), landmarks, "y", height, 1),
        runningMax(Num(0), landmarks, "y", height, 1))

\* sqrt(faceBox.width^2 + faceBox.height^2), as onResults and calculateDistanceScale compute it
FaceSize(faceBox) == Hypot(faceBox.width, faceBox.height)

----------------------------------------------------------------------------
(* Calibration scale factors.  g is the record of the program's globals.   *)

\* current / reference, clamped to [0.4, 2.5]
ratioScale(p1, p2, reference) ==
  IF p1 = Null \/ p2 = Null THEN Num(1)
  ELSE Clamp(Q(4, 10), Q(25, 10), Div(calculateDistance(p1, p2), reference))

\* current / reference with the upper limit of the clamp left out
ratioScaleUnclamped(p1, p2, reference) ==
  IF p1 = Null \/ p2 = Null THEN Num(1)
  ELSE MathMax(Q(4, 10), Div(calculateDistance(p1, p2), reference))

\* calculateEyeDistanceScale without Math.min(2.5, ...)
calculateEyeDistanceScaleUnclamped(g) ==
  IF ~Truthy(g.referenceEyeDistance) \/ g.detectedLandmarks = Null THEN Num(1)
  ELSE ratioScaleUnclamped(getLandmark(g.detectedLandmarks, 33, g.canvas.width, g.canvas.height),
                           getLandmark(g.detectedLandmarks, 263, g.canvas.width, g.canvas.height),
                           g.referenceEyeDistance)

\* src/app.js calculateEyeDistanceScale
calculateEyeDistanceScale(g) ==
  IF ~Truthy(g.referenceEyeDistance) \/ g.detectedLandmarks = Null THEN Num(1)
  ELSE ratioScale(getLandmark(g.detectedLandmarks, 33, g.canvas.width, g.canvas.height),
                  getLandmark(g.detectedLandmarks, 263, g.canvas.width, g.canvas.height),
                  g.referenceEyeDistance)

\* src/app.js calculateFaceWidthScale
calculateFaceWidthScale(g) ==
  IF ~Truthy(g.referenceFaceWidth) \/ g.detectedLandmarks = Null THEN Num(1)
  ELSE ratioScale(getLandmark(g.detectedLandmarks, 234, g.canvas.width, g.canvas.height),
                  getLandmark(g.detectedLandmarks, 454, g.canvas.width, g.canvas.height),
                  g.referenceFaceWidth)

\* calculateDistanceScale with the ratio the other way round: current / reference
calculateDistanceScaleDirect(g) ==
  IF ~Truthy(g.referenceFaceSize) \/ g.detectedLandmarks = Null THEN Num(1)
  ELSE Clamp(Q(5, 10), Num(2),
             Div(FaceSize(calculateFaceBox(g.detectedLandmarks, g.canvas.width,
                                           g.canvas.height)),
                 g.referenceFaceSize))

\* src/app.js calculateDistanceScale: reference / current, clamped to [0.5, 2.0]
calculateDistanceScale(g) ==
  IF ~Truthy(g.referenceFaceSize) \/ g.detectedLandmarks = Null THEN Num(1)
  ELSE Clamp(Q(5, 10), Num(2),
             Div(g.referenceFaceSize,
                 FaceSize(calculateFaceBox(g.detectedLandmarks, g.canvas.width,
                                           g.canvas.height))))

----------------------------------------------------------------------------
(* Face orientation (angles in units of pi)                                *)

MinLandmarks == 468

smoothingFactor == Q(7, 10)

\* raw angles whose yaw is the difference of the cheek distances over the left one
rawAnglesLeftRatio(leftEyeOuter, rightEyeOuter, forehead, chin, noseTip, leftCheek, rightCheek) ==
  [roll |-> Num(0), pitch |-> Num(0),
   yaw |-> IF leftCheek # Null /\ rightCheek # Null /\ noseTip # Null
              /\ Lt(Num(0), calculateDistance(noseTip, leftCheek))
           THEN Mul(Div(Sub(calculateDistance(noseTip, rightCheek),
                            calculateDistance(noseTip, leftCheek)),
                        calculateDistance(noseTip, leftCheek)), Q(3, 10))
           ELSE Num(0)]

\* raw angles whose pitch is overridden only when the nose tip is off the centre
rawAnglesCentredFirst(leftEyeOuter, rightEyeOuter, forehead, chin, noseTip, leftCheek, rightCheek) ==
  LET faceCenterX == IF leftCheek # Null /\ rightCheek # Null
                     THEN Div(Add(leftCheek.x, rightCheek.x), Num(2))
                     ELSE noseTip.x
      eyeLevel == IF leftEyeOuter # Null /\ rightEyeOuter # Null
                  THEN Div(Add(leftEyeOuter.y, rightEyeOuter.y), Num(2))
                  ELSE noseTip.y
  IN  [roll |-> Num(0),
       pitch |-> IF forehead # Null /\ chin # Null /\ noseTip # Null
                    /\ Lt(Num(0), Sub(chin.y, forehead.y))
                 THEN IF noseTip.x = faceCenterX
                      THEN Mul(Atan2Pi(Num(0), Sub(chin.y, forehead.y)), Q(3, 10))
                      ELSE Mul(Div(Sub(noseTip.y, eyeLevel), Sub(chin.y, forehead.y)), Q(2, 10))
                 ELSE Num(0),
       yaw |-> Num(0)]

\* The raw roll, pitch and yaw computed from the seven landmarks (the locals roll,
\* pitch, yaw before the smoothing)
rawAngles(leftEyeOuter, rightEyeOuter, forehead, chin, noseTip, leftCheek, rightCheek) ==
  LET roll == IF leftEyeOuter # Null /\ rightEyeOuter # Null
              THEN Atan2Pi(Sub(rightEyeOuter.y, leftEyeOuter.y), Sub(rightEyeOuter.x, leftEyeOuter.x))
              ELSE Num(0)
      pitch ==
        IF forehead # Null /\ chin # Null /\ noseTip # Null
        THEN LET verticalDistance == Sub(chin.y, forehead.y)
                 faceCenterX == IF leftCheek # Null /\ rightCheek # Null
                                THEN Div(Add(leftCheek.x, rightCheek.x), Num(2))
                                ELSE noseTip.x
                 horizontalDistance == MathAbs(Sub(noseTip.x, faceCenterX))
                 pitch1 == IF Lt(Num(0), verticalDistance)
                           THEN Mul(Atan2Pi(horizontalDistance, verticalDistance), Q(3, 10))
                           ELSE Num(0)
                 eyeLevel == IF leftEyeOuter # Null /\ rightEyeOuter # Null
                             THEN Div(Add(leftEyeOuter.y, rightEyeOuter.y), Num(2))
                             ELSE noseTip.y
                 faceHeight == Sub(chin.y, forehead.y)
                 noseOffset == Sub(noseTip.y, eyeLevel)
             IN  IF Lt(Num(0), faceHeight)
                 THEN Mul(Div(noseOffset, faceHeight), Q(2, 10))
                 ELSE pitch1
        ELSE Num(0)
      yaw ==
        IF leftCheek # Null /\ rightCheek # Null /\ noseTip # Null
        THEN LET leftDistance == calculateDistance(noseTip, leftCheek)
                 rightDistance == calculateDistance(noseTip, rightCheek)
                 totalWidth == Add(leftDistance, rightDistance)
             IN  IF Lt(Num(0), totalWidth)
                 THEN Mul(Div(Sub(rightDistance, leftDistance), totalWidth), Q(3, 10))
                 ELSE Num(0)
        ELSE Num(0)
  IN  [roll |-> roll, pitch |-> pitch, yaw |-> yaw]

RawRotation(landmarks, canvas) ==
  rawAngles(getLandmark(landmarks, 33, canvas.width, canvas.height),
            getLandmark(landmarks, 263, canvas.width, canvas.height),
            getLandmark(landmarks, 10, canvas.width, canvas.height),
            getLandmark(landmarks, 175, canvas.width, canvas.height),
            getLandmark(landmarks, 1, canvas.width, canvas.height),
            getLandmark(landmarks, 234, canvas.width, canvas.height),
            getLandmark(landmarks, 454, canvas.width, canvas.height))

\* a smoothing whose weights do not sum to 1: prev * 0.7 + raw * (1 + 0.3)
SmoothOvershoot(prev, raw) ==
  Add(Mul(prev, Q(7, 10)), Mul(raw, Add(Num(1), Q(3, 10))))

\* new = prev * smoothingFactor + raw * (1 - smoothingFactor)
Smooth(prev, raw) == Add(Mul(prev, smoothingFactor), Mul(raw, Sub(Num(1), smoothingFactor)))

\* the three axes smoothed
smoothRotation(prev, raw) ==
  [roll |-> Smooth(prev.roll, raw.roll),
   pitch |-> Smooth(prev.pitch, raw.pitch),
   yaw |-> Smooth(prev.yaw, raw.yaw)]

\* src/app.js calculateFaceRotation: the value returned (and left in faceRotation)
calculateFaceRotation(g, landmarks) ==
  IF landmarks = Null \/ landmarks.len < MinLandmarks
  THEN [roll |-> Num(0), pitch |-> Num(0), yaw |-> Num(0)]
  ELSE smoothRotation(g.faceRotation, RawRotation(landmarks, g.canvas))

----------------------------------------------------------------------------
(* Overlay fitting engine                                                  *)

Categories == {"glasses", "hat", "shirt"}

\* a multiplier table with the glasses entry of 2.0
roundedFittingMultipliers(type) ==
  CASE type = "glasses" -> Num(2)
    [] type = "hat" -> Q(16, 10)
    [] type = "shirt" -> Q(24, 10)
    [] OTHER -> Num(1)

smartFittingMultipliers(type) ==
  CASE type = "glasses" -> Q(22, 10)
    [] type = "hat" -> Q(16, 10)
    [] type = "shirt" -> Q(24, 10)
    [] OTHER -> Num(1)

\* the returned object: centerX || x + width / 2, centerY || y + height / 2
Placement(x, y, width, height, centerX, centerY) ==
  [x |-> x, y |-> y, width |-> width, height |-> height,
   centerX |-> IF Truthy(centerX) THEN centerX ELSE Add(x, Div(width, Num(2))),
   centerY |-> IF Truthy(centerY) THEN centerY ELSE Add(y, Div(height, Num(2)))]

\* x = centerX - width / 2, y = centerY - height * above + canvasHeight * overlayOffsetY
anchored(width, height, centerX, centerY, above, offset) ==
  Placement(Sub(centerX, Half(width)), Add(Sub(centerY, Mul(height, above)), offset),
            width, height, centerX, centerY)

\* height = (imgHeight / imgWidth) * width
sized(width, aspect, centerX, centerY, above, offset) ==
  anchored(width, Mul(aspect, width), centerX, centerY, above, offset)

\* the shirt placements below the face box: y = lowY + canvasHeight * overlayOffsetY
hung(width, aspect, centerX, lowY, offset) ==
  Placement(Sub(centerX, Half(width)), Add(lowY, offset), width, Mul(aspect, width),
            centerX, lowY)

\* type === 'glasses'
fitGlasses(g, leftEye, rightEye, leftEyeInner, rightEyeInner, faceBox, fittingMultiplier,
           aspect, offset) ==
  IF leftEye # Null /\ rightEye # Null
  THEN sized(Mul(Mul(Mul(calculateDistance(leftEye, rightEye), fittingMultiplier),
                     g.overlayScale), calculateEyeDistanceScale(g)),
             aspect,
             Mid(leftEye.x, rightEye.x),
             IF leftEyeInner # Null /\ rightEyeInner # Null
             THEN Mid(Mid(leftEye.y, leftEyeInner.y), Mid(rightEye.y, rightEyeInner.y))
             ELSE Mid(leftEye.y, rightEye.y),
             Q(45, 100), offset)
  ELSE sized(Mul(Mul(Mul(Mul(faceBox.width, Q(6, 10)), fittingMultiplier), g.overlayScale),
                 calculateDistanceScale(g)),
             aspect,
             Add(faceBox.x, Half(faceBox.width)),
             Add(faceBox.y, Mul(faceBox.height, Q(25, 100))),
             Q(5, 10), offset)

\* type === 'hat', both temples present: the three vertical references
hatOnFace(width, faceLeft, faceRight, forehead, leftEye, rightEye, faceBox, aspect, offset) ==
  IF forehead # Null
  THEN sized(width, aspect, Mid(faceLeft.x, faceRight.x), forehead.y, Q(75, 100), offset)
  ELSE IF leftEye # Null /\ rightEye # Null
  THEN sized(width, aspect, Mid(faceLeft.x, faceRight.x),
             Sub(Mid(leftEye.y, rightEye.y), Mul(faceBox.height, Q(15, 100))),
             Q(75, 100), offset)
  ELSE sized(width, aspect, Add(faceBox.x, Half(faceBox.width)), faceBox.y, Q(7, 10), offset)

\* type === 'hat'
fitHat(g, faceLeft, faceRight, forehead, leftEye, rightEye, faceBox, fittingMultiplier,
       aspect, offset) ==
  IF faceLeft # Null /\ faceRight # Null
  THEN hatOnFace(Mul(Mul(Mul(calculateDistance(faceLeft, faceRight), fittingMultiplier),
                         g.overlayScale), calculateFaceWidthScale(g)),
                 faceLeft, faceRight, forehead, leftEye, rightEye, faceBox, aspect, offset)
  ELSE sized(Mul(Mul(Mul(faceBox.width, fittingMultiplier), g.overlayScale),
                 calculateDistanceScale(g)),
             aspect, Add(faceBox.x, Half(faceBox.width)), faceBox.y, Q(7, 10), offset)

\* type === 'shirt', both jaw points present: the three vertical references
shirtOnJaw(width, jawLeft, jawRight, chin, noseTip, faceBox, aspect, offset) ==
  IF chin # Null
  THEN sized(width, aspect, Mid(jawLeft.x, jawRight.x), chin.y, Q(25, 100), offset)
  ELSE IF noseTip # Null
  THEN sized(width, aspect, Mid(jawLeft.x, jawRight.x),
             Add(noseTip.y, Mul(faceBox.height, Q(3, 10))), Q(25, 100), offset)
  ELSE hung(width, aspect, Add(faceBox.x, Half(faceBox.width)),
            Add(faceBox.y, Mul(faceBox.height, Q(6, 10))), offset)

\* type === 'shirt'
\* a shirt fitting without the face-box fallback: no jaw, no placement
fitShirtStrict(g, jawLeft, jawRight, chin, noseTip, faceBox, fittingMultiplier, aspect, offset) ==
  IF jawLeft # Null /\ jawRight # Null
  THEN shirtOnJaw(Mul(Mul(Mul(calculateDistance(jawLeft, jawRight), fittingMultiplier),
                          g.overlayScale), calculateFaceWidthScale(g)),
                  jawLeft, jawRight, chin, noseTip, faceBox, aspect, offset)
  ELSE Null

fitShirt(g, jawLeft, jawRight, chin, noseTip, faceBox, fittingMultiplier, aspect, offset) ==
  IF jawLeft # Null /\ jawRight # Null
  THEN shirtOnJaw(Mul(Mul(Mul(calculateDistance(jawLeft, jawRight), fittingMultiplier),
                          g.overlayScale), calculateFaceWidthScale(g)),
                  jawLeft, jawRight, chin, noseTip, faceBox, aspect, offset)
  ELSE hung(Mul(Mul(Mul(faceBox.width, fittingMultiplier), g.overlayScale),
                calculateDistanceScale(g)),
            aspect, Add(faceBox.x, Half(faceBox.width)),
            Add(faceBox.y, Mul(faceBox.height, Q(6, 10))), offset)

\* a fitting that sizes every type, known or not, from the face box
calculateOverlayPositionAnyType(g, type, landmarks, imgWidth, imgHeight) ==
  IF landmarks = Null THEN Null
  ELSE LET faceBox == calculateFaceBox(landmarks, g.canvas.width, g.canvas.height)
           width == Mul(Mul(faceBox.width, smartFittingMultipliers(type)), g.overlayScale)
           height == Mul(Div(imgHeight, imgWidth), width)
       IN  Placement(faceBox.x, faceBox.y, width, height,
                     Add(faceBox.x, Half(faceBox.width)), faceBox.y)

\* src/app.js calculateOverlayPosition: the Placement returned, or null
calculateOverlayPosition(g, type, landmarks, imgWidth, imgHeight) ==
  IF landmarks = Null \/ type = "" THEN Null
  ELSE
  LET canvasWidth == g.canvas.width
      canvasHeight == g.canvas.height
      faceBox == calculateFaceBox(landmarks, canvasWidth, canvasHeight)
      fittingMultiplier == smartFittingMultipliers(type)
      P(i) == getLandmark(landmarks, i, canvasWidth, canvasHeight)
      offset == Mul(Num(canvasHeight), g.overlayOffsetY)
      aspect == Div(imgHeight, imgWidth)
  IN
  CASE type = "glasses" ->
         fitGlasses(g, P(33), P(263), P(133), P(362), faceBox, fittingMultiplier, aspect, offset)
    [] type = "hat" ->
         fitHat(g, P(234), P(454), P(10), P(33), P(263), faceBox, fittingMultiplier, aspect,
                offset)
    [] type = "shirt" ->
         fitShirt(g, P(234), P(454), P(175), P(1), faceBox, fittingMultiplier, aspect, offset)
    [] OTHER -> Null

----------------------------------------------------------------------------
(* Lighting estimator.  data is the pixel buffer read back from the sample *)
(* region, a sequence of <<r, g, b>>; Throws is a failed readback.         *)

\* 0.299 * r + 0.587 * g + 0.114 * b
Luminance(px) == Q(299 * px[1] + 587 * px[2] + 114 * px[3], 1000)

RECURSIVE SumChannel(_, _)
SumChannel(data, c) == IF data = <<>> THEN 0 ELSE Head(data)[c] + SumChannel(Tail(data), c)

lightingSmoothing == Q(85, 100)

Throws == [throws |-> TRUE]

Pixels(data) == [data |-> data]

\* avgR > avgB ? avgR / (avgR + avgB) : avgB / (avgR + avgB)
colorBalance(avgR, avgB) ==
  IF Lt(avgB, avgR) THEN Div(avgR, Add(avgR, avgB)) ELSE Div(avgB, Add(avgR, avgB))

\* sqrt((avgR - avg)^2 + (avgG - avg)^2 + (avgB - avg)^2) / 128
colorVariance(dR, dG, dB) ==
  Div(MathSqrt(Add(Add(Mul(dR, dR), Mul(dG, dG)), Mul(dB, dB))), Num(128))

\* the four targets from the channel averages, the average brightness and the range
targetsFrom(avgR, avgG, avgB, avgBrightness, contrastRange) ==
  [brightness |-> Clamp(Q(5, 10), Q(15, 10), Div(avgBrightness, Num(128))),
   contrast |-> Clamp(Q(8, 10), Q(13, 10),
                      Add(Q(9, 10), Mul(Div(contrastRange, Num(128)), Q(4, 10)))),
   saturation |-> Clamp(Q(7, 10), Q(13, 10),
                        Add(Q(9, 10),
                            Mul(colorVariance(Sub(avgR, avgBrightness), Sub(avgG, avgBrightness),
                                              Sub(avgB, avgBrightness)),
                                Q(4, 10)))),
   temperature |-> Add(Num(4000), Mul(colorBalance(avgR, avgB), Num(4000))),
   enabled |-> TRUE]

\* avgBrightness = (max + min) / 2, contrastRange = max - min
targetsOf(avgR, avgG, avgB, maxBrightness, minBrightness) ==
  targetsFrom(avgR, avgG, avgB, Half(Add(maxBrightness, minBrightness)),
              Sub(maxBrightness, minBrightness))

\* the targets computed from a non-empty pixel buffer
LightingTargets(data) ==
  targetsOf(Q(SumChannel(data, 1), Len(data)), Q(SumChannel(data, 2), Len(data)),
            Q(SumChannel(data, 3), Len(data)),
            MaxOf({Luminance(data[i]) : i \in DOMAIN data} \cup {Num(0)}),
            MinOf({Luminance(data[i]) : i \in DOMAIN data} \cup {Num(255)}))

\* state * smoothingFactor + target * (1 - smoothingFactor)
LightSmooth(state, target) ==
  Add(Mul(state, lightingSmoothing), Mul(target, Sub(Num(1), lightingSmoothing)))

\* the smoothed state moves towards the targets t
blendLighting(g, t) ==
  [g EXCEPT !.targetLighting = [t EXCEPT !.enabled = g.targetLighting.enabled],
            !.lightingAnalysis =
               [brightness |-> LightSmooth(g.lightingAnalysis.brightness, t.brightness),
                contrast |-> LightSmooth(g.lightingAnalysis.contrast, t.contrast),
                saturation |-> LightSmooth(g.lightingAnalysis.saturation, t.saturation),
                temperature |-> LightSmooth(g.lightingAnalysis.temperature, t.temperature),
                enabled |-> g.lightingAnalysis.enabled]]

\* an analysis that jumps to the last targets when the readback fails
analyzeLightingResetting(g, sourceImage, readback) ==
  IF sourceImage = "" THEN g
  ELSE IF readback = Throws \/ Len(readback.data) = 0
  THEN [g EXCEPT !.lightingAnalysis = g.targetLighting]
  ELSE blendLighting(g, LightingTargets(readback.data))

\* src/app.js analyzeLighting: the globals after the call
analyzeLighting(g, sourceImage, readback) ==
  IF sourceImage = "" THEN g
  ELSE IF readback = Throws THEN g
  ELSE IF Len(readback.data) = 0 THEN g
  ELSE blendLighting(g, LightingTargets(readback.data))

----------------------------------------------------------------------------
(* Overlay images.  overlayImg is null or [src, type, state]: the Image    *)
(* object of the last applyProduct, "loading", "loaded" or "broken".       *)

\* One product of each category of the catalogue, and an item whose type is none of
\* them (a thumbnail's data-type, or the item of an outfit restored from storage)
Products == {[src |-> "glasses.png", type |-> "glasses"],
             [src |-> "hat.png", type |-> "hat"],
             [src |-> "shirt.png", type |-> "shirt"],
             [src |-> "scarf.png", type |-> "scarf"]}

\* natural pixel size of each asset
AssetWidth(src) == CASE src = "glasses.png" -> 100 [] src = "hat.png" -> 200 [] OTHER -> 300

AssetHeight(src) == CASE src = "glasses.png" -> 50 [] src = "hat.png" -> 150 [] OTHER -> 400

\* HTMLImageElement.complete: true once the load has succeeded or failed
ImgComplete(img) == img.state # "loading"

\* HTMLImageElement.width / height: 0 until (and unless) the image is available
ImgWidth(img) == IF img.state = "loaded" THEN Num(AssetWidth(img.src)) ELSE Num(0)

ImgHeight(img) == IF img.state = "loaded" THEN Num(AssetHeight(img.src)) ELSE Num(0)

----------------------------------------------------------------------------
(* Frame compositor                                                        *)

\* an overlay step that draws whatever image it is given, broken or not
drawRotatedOverlayAnyImage(image, pos, rotation) ==
  IF pos = Null \/ image = Null \/ rotation = Null THEN "skipped" ELSE "drawn"

\* src/app.js drawRotatedOverlay: "skipped", "drawn", or "threw" when ctx.drawImage
\* rejects an image whose load has failed (InvalidStateError)
drawRotatedOverlay(image, pos, rotation) ==
  IF pos = Null \/ image = Null \/ rotation = Null THEN "skipped"
  ELSE IF image.state = "broken" THEN "threw"
  ELSE "drawn"

\* the lighting adaptation with the tint drawn for every deviation from 6500
overlayLightingNoDeadband(g) ==
  IF ~g.lightingAnalysis.enabled THEN [filter |-> FALSE, tint |-> "none", alpha |-> Null]
  ELSE LET tempRatio == Div(Sub(g.lightingAnalysis.temperature, Num(6500)), Num(6500))
       IN  IF Lt(Num(0), MathAbs(tempRatio))
           THEN [filter |-> TRUE, tint |-> IF Lt(Num(0), tempRatio) THEN "cool" ELSE "warm",
                 alpha |-> Mul(MathAbs(tempRatio), Q(3, 10))]
           ELSE [filter |-> TRUE, tint |-> "none", alpha |-> Null]

\* src/app.js drawRotatedOverlay, the lighting adaptation of the overlay: whether
\* ctx.filter is set to the brightness / contrast / saturate filter, and the tint
\* rectangle filled over the placement ("cool" is rgba(150, 180, 255, alpha),
\* "warm" is rgba(255, 220, 180, alpha)), if any
overlayLighting(g) ==
  IF ~g.lightingAnalysis.enabled THEN [filter |-> FALSE, tint |-> "none", alpha |-> Null]
  ELSE LET tempRatio == Div(Sub(g.lightingAnalysis.temperature, Num(6500)), Num(6500))
       IN  IF Lt(Q(5, 100), MathAbs(tempRatio))
           THEN [filter |-> TRUE, tint |-> IF Lt(Num(0), tempRatio) THEN "cool" ELSE "warm",
                 alpha |-> Mul(MathAbs(tempRatio), Q(3, 10))]
           ELSE [filter |-> TRUE, tint |-> "none", alpha |-> Null]

\* the draw cycle as the log keeps it; sample is the readback of the lighting sample
\* the cycle took, or null
logCycle(g, sample, fit, pos, res) ==
  [g EXCEPT !.exc = (res = "threw"),
            !.drawLog = Append(g.drawLog,
               [still |-> g.isUsingUploadedImage, background |-> TRUE,
                sampled |-> sample # Null, readback |-> sample,
                fitted |-> fit, pos |-> pos, overlay |-> res,
                imgWidth |-> IF fit THEN ImgWidth(g.overlayImg) ELSE Null,
                imgHeight |-> IF fit THEN ImgHeight(g.overlayImg) ELSE Null,
                scheduled |-> ~g.isUsingUploadedImage /\ res # "threw"])]

\* if (pos) drawRotatedOverlay(overlayImg, pos, faceRotation)
overlayDrawn(g, sample, fit, pos) ==
  logCycle(g, sample, fit, pos,
           IF fit /\ pos # Null THEN drawRotatedOverlay(g.overlayImg, pos, g.faceRotation)
           ELSE "skipped")

\* if (overlayImg && overlayImg.complete && overlaySrc && detectedLandmarks)
overlayFitted(g, sample, fit) ==
  overlayDrawn(g, sample, fit,
               IF fit
               THEN calculateOverlayPosition(g, g.overlayType, g.detectedLandmarks,
                                             ImgWidth(g.overlayImg), ImgHeight(g.overlayImg))
               ELSE Null)

\* the lighting sample (when due) and frameCount++, then the overlay
sampled(g, sample, source, readback) ==
  overlayFitted([(IF sample THEN analyzeLighting(g, source, readback) ELSE g)
                   EXCEPT !.frameCount = g.frameCount + 1],
                IF sample THEN readback ELSE Null,
                g.overlayImg # Null /\ ImgComplete(g.overlayImg) /\ g.overlaySrc # ""
                  /\ g.detectedLandmarks # Null)

\* The body shared by the two branches of draw(): background, throttled lighting
\* sample, frame counter, overlay.  Returns the globals with the cycle logged.
DrawBody(g, source, every, readback) ==
  sampled(g, g.detectedLandmarks # Null /\ g.lightingAnalysis.enabled
               /\ g.frameCount % every = 0,
          source, readback)

NoBackground(g) ==
  [g EXCEPT !.drawLog = Append(g.drawLog,
     [still |-> g.isUsingUploadedImage, background |-> FALSE, sampled |-> FALSE,
      readback |-> Null,
      fitted |-> FALSE, pos |-> Null, overlay |-> "skipped",
      imgWidth |-> Null, imgHeight |-> Null,
      scheduled |-> ~g.isUsingUploadedImage])]

RafDraw == [fn |-> "draw"]

\* requestAnimationFrame(draw), the last statement of the camera branch
scheduleDraw(g) ==
  IF g.exc THEN g ELSE [g EXCEPT !.rafQueue = Append(g.rafQueue, RafDraw)]

\* one branch of draw(): the background and the rest when the source has a frame
\* (uploadedImg.complete && naturalWidth > 0, video.readyState >= 2)
drawFrom(g, ready, source, every, readback) ==
  IF ready THEN DrawBody(g, source, every, readback) ELSE NoBackground(g)

\* a draw() that samples the lighting of a still image every 3rd cycle as well
drawEveryThird(g, readback) ==
  IF g.exc THEN g
  ELSE IF g.isUsingUploadedImage
  THEN drawFrom(g, g.uploadedReady, "uploadedImg", 3, readback)
  ELSE scheduleDraw(drawFrom(g, g.videoReady, "video", 3, readback))

\* src/app.js draw.  g.exc is set when the cycle ends in an exception.
draw(g, readback) ==
  IF g.exc THEN g
  ELSE IF g.isUsingUploadedImage
  THEN drawFrom(g, g.uploadedReady, "uploadedImg", 5, readback)
  ELSE scheduleDraw(drawFrom(g, g.videoReady, "video", 3, readback))

----------------------------------------------------------------------------
(* Inputs: landmark sets, canvas sizes, slider values, pixel buffers       *)

\* a normalised point on a grid of 1/640
W(x, y) == [x |-> Q(x, 640), y |-> Q(y, 640)]

Face(len, p0, p1, p2, p10, p33, p133, p175, p234, p263, p362, p454) ==
  [len |-> len,
   pts |-> [i \in KeyIdx |->
              CASE i = 0 -> p0 [] i = 1 -> p1 [] i = 2 -> p2 [] i = 10 -> p10
                [] i = 33 -> p33 [] i = 133 -> p133 [] i = 175 -> p175
                [] i = 234 -> p234 [] i = 263 -> p263 [] i = 362 -> p362
                [] i = 454 -> p454]]

\* a frontal face at the reference pose
FaceA == Face(468, W(192, 160), W(320, 256), W(448, 352), W(320, 160), W(256, 224), W(288, 224),
              W(320, 352), W(192, 256), W(384, 224), W(352, 224), W(448, 256))

\* a close face, rolled by a quarter turn and turned sideways (its eye distance is
\* 100 times that of FaceTiny)
FaceB == Face(468, W(64, 64), W(192, 256), W(576, 448), W(320, 64), W(320, 92), W(320, 160),
              W(320, 448), W(64, 256), W(320, 292), W(320, 240), W(576, 256))

\* a very distant face
FaceTiny == Face(468, W(320, 256), W(324, 260), W(328, 262), W(324, 256), W(324, 257),
                 W(324, 258), W(324, 262), W(320, 260), W(324, 259), W(324, 258), W(328, 260))

\* a degenerate detection: every landmark at the same point
FaceZero == Face(468, W(320, 256), W(320, 256), W(320, 256), W(320, 256), W(320, 256),
                 W(320, 256), W(320, 256), W(320, 256), W(320, 256), W(320, 256), W(320, 256))

Truncate(face, len) == [face EXCEPT !.len = len]

\* the full sets, FaceB in full profile (the nose tip on the left cheek), FaceA
\* upside down (the chin above the forehead), and FaceA cut to shorter arrays
AllFaces == {FaceA, FaceB, FaceTiny, FaceZero, [FaceB EXCEPT !.pts[1] = W(64, 256)],
             [FaceA EXCEPT !.pts[10] = W(320, 352), !.pts[175] = W(320, 160)],
             Truncate(FaceA, 300), Truncate(FaceA, 200), Truncate(FaceA, 20)}

\* startCamera: containerWidth = clientWidth || 360, containerHeight = round(360 * 16 / 9)
CameraCanvas == [width |-> 360, height |-> 640]

\* the capture handler: video.videoWidth x video.videoHeight
VideoCanvas == [width |-> 720, height |-> 1280]

Gray(v) == <<v, v, v>>

\* pixel buffers of the sample region, and a failed readback
Readbacks == {Throws, Pixels(<<>>), Pixels(<<Gray(128)>>), Pixels(<<Gray(64), Gray(192)>>),
              Pixels(<<Gray(0)>>), Pixels(<<Gray(32), Gray(32)>>), Pixels(<<Gray(255)>>)}

----------------------------------------------------------------------------
(* Bounds                                                                  *)

MaxFrameCount == 4

MaxFaceFrames == 2

MaxPending == 4

MaxCaptures == 1

MaxLoads == 1

MaxResets == 1

MaxPolls == 4

----------------------------------------------------------------------------
(* State                                                                   *)

VARIABLES
  isUsingUploadedImage, camera, canvas, videoReady, uploadedReady, backBtnVisible,
  detectedLandmarks, faceRotation,
  referenceFaceSize, referenceEyeDistance, referenceFaceWidth,
  overlayImg, overlaySrc, overlayType, overlayScale, overlayOffsetY,
  lightingAnalysis, targetLighting, frameCount, status,
  rafQueue, sends, decoding, starts, pendingLoads,
  FaceMesh, faceMesh, timeouts, polls,
  epoch, faceFrames, drawLog, exc, lastOp

vars == <<isUsingUploadedImage, camera, canvas, videoReady, uploadedReady, backBtnVisible,
          detectedLandmarks, faceRotation,
          referenceFaceSize, referenceEyeDistance, referenceFaceWidth,
          overlayImg, overlaySrc, overlayType, overlayScale, overlayOffsetY,
          lightingAnalysis, targetLighting, frameCount, status,
          rafQueue, sends, decoding, starts, pendingLoads,
          FaceMesh, faceMesh, timeouts, polls,
          epoch, faceFrames, drawLog, exc, lastOp>>

\* the globals as one record, so that a handler is a function from globals to globals
G ==
  [isUsingUploadedImage |-> isUsingUploadedImage, camera |-> camera, canvas |-> canvas,
   videoReady |-> videoReady, uploadedReady |-> uploadedReady,
   backBtnVisible |-> backBtnVisible,
   detectedLandmarks |-> detectedLandmarks, faceRotation |-> faceRotation,
   referenceFaceSize |-> referenceFaceSize, referenceEyeDistance |-> referenceEyeDistance,
   referenceFaceWidth |-> referenceFaceWidth,
   overlayImg |-> overlayImg, overlaySrc |-> overlaySrc, overlayType |-> overlayType,
   overlayScale |-> overlayScale, overlayOffsetY |-> overlayOffsetY,
   lightingAnalysis |-> lightingAnalysis, targetLighting |-> targetLighting,
   frameCount |-> frameCount, status |-> status,
   rafQueue |-> rafQueue, sends |-> sends, decoding |-> decoding, starts |-> starts,
   pendingLoads |-> pendingLoads,
   FaceMesh |-> FaceMesh, faceMesh |-> faceMesh, timeouts |-> timeouts, polls |-> polls,
   epoch |-> epoch, faceFrames |-> faceFrames, drawLog |-> <<>>, exc |-> FALSE,
   lastOp |-> lastOp]

\* the next state is the record h
Becomes(h) ==
  /\ isUsingUploadedImage' = h.isUsingUploadedImage
  /\ camera' = h.camera
  /\ canvas' = h.canvas
  /\ videoReady' = h.videoReady
  /\ uploadedReady' = h.uploadedReady
  /\ backBtnVisible' = h.backBtnVisible
  /\ detectedLandmarks' = h.detectedLandmarks
  /\ faceRotation' = h.faceRotation
  /\ referenceFaceSize' = h.referenceFaceSize
  /\ referenceEyeDistance' = h.referenceEyeDistance
  /\ referenceFaceWidth' = h.referenceFaceWidth
  /\ overlayImg' = h.overlayImg
  /\ overlaySrc' = h.overlaySrc
  /\ overlayType' = h.overlayType
  /\ overlayScale' = h.overlayScale
  /\ overlayOffsetY' = h.overlayOffsetY
  /\ lightingAnalysis' = h.lightingAnalysis
  /\ targetLighting' = h.targetLighting
  /\ frameCount' = h.frameCount
  /\ status' = h.status
  /\ rafQueue' = h.rafQueue
  /\ sends' = h.sends
  /\ decoding' = h.decoding
  /\ starts' = h.starts
  /\ pendingLoads' = h.pendingLoads
  /\ FaceMesh' = h.FaceMesh
  /\ faceMesh' = h.faceMesh
  /\ timeouts' = h.timeouts
  /\ polls' = h.polls
  /\ epoch' = h.epoch
  /\ faceFrames' = h.faceFrames
  /\ drawLog' = h.drawLog
  /\ exc' = h.exc
  /\ lastOp' = h.lastOp

InitialLighting ==
  [brightness |-> Num(1), contrast |-> Num(1), saturation |-> Num(1),
   temperature |-> Num(6500), enabled |-> TRUE]

\* The globals as declared, once initializeApp has found the DOM elements;
\* defined: whether the detector script has defined FaceMesh by then.
Declared(defined) ==
  [isUsingUploadedImage |-> FALSE, camera |-> Null,
   canvas |-> [width |-> 300, height |-> 150],
   videoReady |-> FALSE, uploadedReady |-> FALSE, backBtnVisible |-> FALSE,
   detectedLandmarks |-> Null,
   faceRotation |-> [roll |-> Num(0), pitch |-> Num(0), yaw |-> Num(0)],
   referenceFaceSize |-> Null, referenceEyeDistance |-> Null, referenceFaceWidth |-> Null,
   overlayImg |-> Null, overlaySrc |-> "", overlayType |-> "",
   overlayScale |-> Num(1), overlayOffsetY |-> Num(0),
   lightingAnalysis |-> InitialLighting, targetLighting |-> InitialLighting,
   frameCount |-> 0, status |-> "",
   rafQueue |-> <<>>, sends |-> [camera |-> 0, capture |-> 0], decoding |-> 0, starts |-> 0,
   pendingLoads |-> {},
   FaceMesh |-> defined, faceMesh |-> Null, timeouts |-> 0, polls |-> 0,
   epoch |-> 0, faceFrames |-> 0, drawLog |-> <<>>, exc |-> FALSE,
   lastOp |-> [name |-> "init"]]

\* the state is the record h
Is(h) ==
  /\ isUsingUploadedImage = h.isUsingUploadedImage
  /\ camera = h.camera
  /\ canvas = h.canvas
  /\ videoReady = h.videoReady
  /\ uploadedReady = h.uploadedReady
  /\ backBtnVisible = h.backBtnVisible
  /\ detectedLandmarks = h.detectedLandmarks
  /\ faceRotation = h.faceRotation
  /\ referenceFaceSize = h.referenceFaceSize
  /\ referenceEyeDistance = h.referenceEyeDistance
  /\ referenceFaceWidth = h.referenceFaceWidth
  /\ overlayImg = h.overlayImg
  /\ overlaySrc = h.overlaySrc
  /\ overlayType = h.overlayType
  /\ overlayScale = h.overlayScale
  /\ overlayOffsetY = h.overlayOffsetY
  /\ lightingAnalysis = h.lightingAnalysis
  /\ targetLighting = h.targetLighting
  /\ frameCount = h.frameCount
  /\ status = h.status
  /\ rafQueue = h.rafQueue
  /\ sends = h.sends
  /\ decoding = h.decoding
  /\ starts = h.starts
  /\ pendingLoads = h.pendingLoads
  /\ FaceMesh = h.FaceMesh
  /\ faceMesh = h.faceMesh
  /\ timeouts = h.timeouts
  /\ polls = h.polls
  /\ epoch = h.epoch
  /\ faceFrames = h.faceFrames
  /\ drawLog = h.drawLog
  /\ exc = h.exc
  /\ lastOp = h.lastOp

\* initFaceMesh that arms the poll in both branches
initFaceMeshRearming(g) ==
  IF ~g.FaceMesh
  THEN [g EXCEPT !.status = "Loading face detection models...",
                 !.timeouts = g.timeouts + 1,
                 !.polls = g.polls + 1]
  ELSE [g EXCEPT !.faceMesh = [instance |-> IF g.faceMesh = Null THEN 1
                                            ELSE g.faceMesh.instance + 1,
                               onResults |-> 1],
                 !.status = "Ready - No face detected",
                 !.timeouts = g.timeouts + 1,
                 !.starts = g.starts + 1]

\* src/app.js initFaceMesh, up to the await inside startCamera. While FaceMesh
\* is undefined it sets the status and arms setTimeout(initFaceMesh, 100);
\* otherwise it creates the detector, registers onResults on it, stores it in
\* faceMesh and calls startCamera. polls counts the timers armed and
\* faceMesh.instance the detectors created; the DOM elements tested at line 66
\* are the ones initializeApp has verified before the first call.
initFaceMesh(g) ==
  IF ~g.FaceMesh
  THEN [g EXCEPT !.status = "Loading face detection models...",
                 !.timeouts = g.timeouts + 1,
                 !.polls = g.polls + 1]
  ELSE [g EXCEPT !.faceMesh = [instance |-> IF g.faceMesh = Null THEN 1
                                            ELSE g.faceMesh.instance + 1,
                               onResults |-> 1],
                 !.status = "Ready - No face detected",
                 !.starts = g.starts + 1]

\* The state once initializeApp has run with the detector script loaded:
\* initFaceMesh has called startCamera, which is waiting for getUserMedia.
Init == Is(initFaceMesh(Declared(TRUE)))

\* The state once initializeApp has run, the detector script loaded or not.
InitLoad == \E defined \in BOOLEAN : Is(initFaceMesh(Declared(defined)))

----------------------------------------------------------------------------
(* Handlers, as functions from globals to globals                          *)

\* if (leftEye && rightEye && !referenceEyeDistance) ..., and likewise for the face
\* width and the face size
referencesFrom(g, leftEye, rightEye, faceLeft, faceRight, faceBox) ==
  [g EXCEPT
     !.referenceEyeDistance =
        IF leftEye # Null /\ rightEye # Null /\ ~Truthy(g.referenceEyeDistance)
        THEN calculateDistance(leftEye, rightEye)
        ELSE g.referenceEyeDistance,
     !.referenceFaceWidth =
        IF faceLeft # Null /\ faceRight # Null /\ ~Truthy(g.referenceFaceWidth)
        THEN calculateDistance(faceLeft, faceRight)
        ELSE g.referenceFaceWidth,
     !.referenceFaceSize =
        IF ~Truthy(g.referenceFaceSize) THEN FaceSize(faceBox)
        ELSE g.referenceFaceSize]

\* onResults, face present: each reference is stored when it is not set yet
captureReferences(g, landmarks) ==
  referencesFrom(g,
                 getLandmark(landmarks, 33, g.canvas.width, g.canvas.height),
                 getLandmark(landmarks, 263, g.canvas.width, g.canvas.height),
                 getLandmark(landmarks, 234, g.canvas.width, g.canvas.height),
                 getLandmark(landmarks, 454, g.canvas.width, g.canvas.height),
                 calculateFaceBox(landmarks, g.canvas.width, g.canvas.height))

\* a reset that forgets the face-size reference
clearEyeAndWidthReferences(g) ==
  [g EXCEPT !.referenceEyeDistance = Null,
            !.referenceFaceWidth = Null]

\* onResults, no face: "Reset references when face is lost"
clearReferences(g) ==
  [g EXCEPT !.referenceFaceSize = Null,
            !.referenceEyeDistance = Null,
            !.referenceFaceWidth = Null]

\* the end of onResults: draw() with a face, and without one only in camera mode
resultsDrawn(g, readback) ==
  IF g.detectedLandmarks # Null \/ ~g.isUsingUploadedImage THEN draw(g, readback) ELSE g

\* src/app.js onResults; landmarks is results.multiFaceLandmarks[0] or null
onResults(g, landmarks, readback) ==
  resultsDrawn(IF landmarks # Null
               THEN [captureReferences([g EXCEPT !.detectedLandmarks = landmarks,
                                                 !.faceRotation =
                                                    calculateFaceRotation(g, landmarks),
                                                 !.faceFrames = g.faceFrames + 1],
                                       landmarks)
                       EXCEPT !.status = "Face detected"]
               ELSE clearReferences([g EXCEPT !.detectedLandmarks = Null,
                                              !.status = "No face detected"]),
               readback)

\* startCamera that calls itself again when getUserMedia is refused
startCameraRetrying(g, granted) ==
  IF granted
  THEN [g EXCEPT !.videoReady = FALSE,
                 !.canvas = CameraCanvas,
                 !.camera = [started |-> TRUE],
                 !.status = "Camera ready - Face detection active",
                 !.rafQueue = Append(g.rafQueue, RafDraw)]
  ELSE [g EXCEPT !.status = "Camera error", !.starts = g.starts + 1]

\* src/app.js startCamera after getUserMedia has settled
startCameraResolved(g, granted) ==
  IF granted
  THEN [g EXCEPT !.videoReady = FALSE,
                 !.canvas = CameraCanvas,
                 !.camera = [started |-> TRUE],
                 !.status = "Camera ready - Face detection active",
                 !.rafQueue = Append(g.rafQueue, RafDraw)]
  ELSE [g EXCEPT !.status = "Camera error"]

\* a reset that leaves the calibration references alone
resetKeepingReferences(g) ==
  [g EXCEPT !.isUsingUploadedImage = FALSE,
            !.uploadedReady = FALSE,
            !.backBtnVisible = FALSE,
            !.overlaySrc = "",
            !.overlayType = "",
            !.overlayImg = Null,
            !.epoch = g.epoch + 1,
            !.starts = g.starts + 1]

\* resetToCamera that also resets the orientation state
resetClearingRotation(g) ==
  [g EXCEPT !.isUsingUploadedImage = FALSE,
            !.uploadedReady = FALSE,
            !.backBtnVisible = FALSE,
            !.overlaySrc = "",
            !.overlayType = "",
            !.overlayImg = Null,
            !.referenceFaceSize = Null,
            !.referenceEyeDistance = Null,
            !.referenceFaceWidth = Null,
            !.faceRotation = [roll |-> Num(0), pitch |-> Num(0), yaw |-> Num(0)],
            !.epoch = g.epoch + 1,
            !.starts = g.starts + 1]

\* src/app.js resetToCamera, up to the await inside startCamera
resetToCamera(g) ==
  [g EXCEPT !.isUsingUploadedImage = FALSE,
            !.uploadedReady = FALSE,
            !.backBtnVisible = FALSE,
            !.overlaySrc = "",
            !.overlayType = "",
            !.overlayImg = Null,
            !.referenceFaceSize = Null,
            !.referenceEyeDistance = Null,
            !.referenceFaceWidth = Null,
            !.epoch = g.epoch + 1,
            !.starts = g.starts + 1]

\* src/app.js captureBtn click handler, up to await uploadedImg.decode()
captureClick(g) ==
  [g EXCEPT !.uploadedReady = FALSE,
            !.camera = Null,
            !.isUsingUploadedImage = TRUE,
            !.canvas = VideoCanvas,
            !.status = "Processing captured photo...",
            !.decoding = g.decoding + 1]

\* ... from the end of decode() to await faceMesh.send(); a rejected decode()
\* lands in the catch block
captureDecoded(g, ok) ==
  IF ok
  THEN [g EXCEPT !.decoding = g.decoding - 1,
                 !.uploadedReady = TRUE,
                 !.sends = [g.sends EXCEPT !.capture = g.sends.capture + 1]]
  ELSE [g EXCEPT !.decoding = g.decoding - 1,
                 !.status = "Capture failed"]

RafLoop(g) == [fn |-> "drawLoop", epoch |-> g.epoch, late |-> FALSE]

\* if (isUsingUploadedImage) requestAnimationFrame(drawLoop)
loopAgain(g, cb) ==
  IF g.exc THEN g
  ELSE IF g.isUsingUploadedImage
  THEN [g EXCEPT !.rafQueue = Append(g.rafQueue, [cb EXCEPT !.late = cb.epoch # g.epoch])]
  ELSE g

\* the body of drawLoop, run for the loop entry cb (its first run has cb.epoch = g.epoch)
drawLoop(g, cb, readback) == loopAgain(draw(g, readback), cb)

\* the catch block of the capture handler
captureCaught(g) ==
  IF g.exc THEN [g EXCEPT !.exc = FALSE, !.status = "Capture failed"] ELSE g

\* if (isUsingUploadedImage) { ... drawLoop() }
captureStartLoop(g, readback) ==
  IF g.isUsingUploadedImage THEN captureCaught(drawLoop(g, RafLoop(g), readback)) ELSE g

\* status, back button, then the loop
captureShown(g, readback) ==
  IF g.exc THEN captureCaught(g)
  ELSE captureStartLoop([g EXCEPT !.status = "Photo captured!", !.backBtnVisible = TRUE],
                        readback)

\* draw() after the send
captureDrawn(g, readback) ==
  IF g.exc THEN g ELSE captureShown(draw(g, readback), readback)

\* ... the rest of the capture handler, once faceMesh.send() has delivered its results
\* to onResults: draw(), status, back button, drawLoop().  An exception inside the
\* try block is caught by the handler.
captureResults(g, landmarks, readback) ==
  captureDrawn(onResults([g EXCEPT !.sends = [g.sends EXCEPT !.capture = g.sends.capture - 1]],
                         landmarks, readback),
               readback)

\* src/app.js applyProduct
applyProduct(g, src, type, readback) ==
  IF src = ""
  THEN draw([g EXCEPT !.overlaySrc = "", !.overlayType = "", !.overlayImg = Null], readback)
  ELSE [g EXCEPT !.overlayImg = [src |-> src, type |-> type, state |-> "loading"],
                 !.pendingLoads = g.pendingLoads \cup {[src |-> src, type |-> type]}]

\* the image of a pending load is the current overlayImg (not one replaced since)
IsCurrent(g, load) ==
  g.overlayImg # Null /\ g.overlayImg.src = load.src /\ g.overlayImg.state = "loading"

\* overlayImg.onload of the Image created for load
imageLoaded(g, load, readback) ==
  LET g1 == [g EXCEPT !.pendingLoads = g.pendingLoads \ {load},
                      !.overlayImg = IF IsCurrent(g, load)
                                     THEN [g.overlayImg EXCEPT !.state = "loaded"]
                                     ELSE g.overlayImg,
                      !.overlaySrc = load.src,
                      !.overlayType = load.type]
  IN  draw(g1, readback)

\* the load fails: no handler runs, the Image becomes broken
imageFailed(g, load) ==
  [g EXCEPT !.pendingLoads = g.pendingLoads \ {load},
            !.overlayImg = IF IsCurrent(g, load)
                           THEN [g.overlayImg EXCEPT !.state = "broken"]
                           ELSE g.overlayImg]

\* the slider input handlers of setupSliders
scaleInput(g, v, readback) == draw([g EXCEPT !.overlayScale = v], readback)

offsetInput(g, v, readback) == draw([g EXCEPT !.overlayOffsetY = v], readback)

\* src/app.js captureOutfitPreview, up to the timeout
captureOutfitPreview(g, readback) ==
  LET g1 == draw(g, readback) IN [g1 EXCEPT !.exc = FALSE]

----------------------------------------------------------------------------
(* Actions: one per event the browser can deliver                          *)

Op(h, name) == Becomes([h EXCEPT !.lastOp = name])

CanDraw == frameCount < MaxFrameCount /\ Len(rafQueue) < MaxPending

\* getUserMedia settles and startCamera continues
StartCameraResolved(granted) ==
  /\ starts > 0
  /\ Len(rafQueue) < MaxPending
  /\ Op(startCameraResolved([G EXCEPT !.starts = starts - 1], granted),
        [name |-> "startCamera", granted |-> granted])

\* Camera.onFrame, called once the video element has a current frame
\* (readyState >= 2): faceMesh.send({image: video})
CameraFrame ==
  /\ camera # Null
  /\ sends.camera = 0
  /\ Op([G EXCEPT !.videoReady = TRUE, !.sends = [sends EXCEPT !.camera = 1]],
        [name |-> "onFrame"])

\* the detector delivers the results of a camera frame
OnResults(landmarks, readback) ==
  /\ sends.camera > 0
  /\ CanDraw
  /\ landmarks # Null => faceFrames < MaxFaceFrames
  /\ Op(onResults([G EXCEPT !.sends = [sends EXCEPT !.camera = sends.camera - 1]],
                  landmarks, readback),
        [name |-> "onResults", face |-> landmarks # Null])

CaptureClick ==
  /\ camera # Null \/ isUsingUploadedImage
  /\ decoding + sends.capture < MaxCaptures
  /\ Op(captureClick(G), [name |-> "capture"])

CaptureDecoded(ok) ==
  /\ decoding > 0
  /\ Op(captureDecoded(G, ok), [name |-> "decoded", ok |-> ok])

CaptureResults(landmarks, readback) ==
  /\ sends.capture > 0
  /\ CanDraw
  /\ landmarks # Null => faceFrames < MaxFaceFrames
  /\ Op(captureResults(G, landmarks, readback),
        [name |-> "captureResults", face |-> landmarks # Null])

ResetClick ==
  /\ backBtnVisible
  /\ epoch < MaxResets
  /\ Op(resetToCamera(G), [name |-> "resetToCamera"])

\* the browser runs the oldest requestAnimationFrame callback
AnimationFrame(readback) ==
  /\ rafQueue # <<>>
  /\ frameCount < MaxFrameCount
  /\ LET cb == Head(rafQueue)
         g == [G EXCEPT !.rafQueue = Tail(rafQueue)]
     IN  Op(IF cb.fn = "draw" THEN draw(g, readback) ELSE drawLoop(g, cb, readback),
            [name |-> cb.fn])

ScaleInput(v, readback) ==
  /\ v # overlayScale
  /\ CanDraw
  /\ Op(scaleInput(G, v, readback), [name |-> "scaleInput"])

OffsetInput(v, readback) ==
  /\ v # overlayOffsetY
  /\ CanDraw
  /\ Op(offsetInput(G, v, readback), [name |-> "offsetInput"])

\* a product is selected while at most `pending` image loads are under way
ApplyProduct(product, readback, pending) ==
  /\ Cardinality(pendingLoads) <= pending
  /\ product \notin pendingLoads
  /\ Op(applyProduct(G, product.src, product.type, readback),
        [name |-> "applyProduct", src |-> product.src])

ClearProduct(readback) ==
  /\ overlayImg # Null
  /\ CanDraw
  /\ Op(applyProduct(G, "", "", readback), [name |-> "applyProduct", src |-> ""])

ImageLoaded(load, readback) ==
  /\ load \in pendingLoads
  /\ CanDraw
  /\ Op(imageLoaded(G, load, readback), [name |-> "imageLoaded"])

ImageFailed(load) ==
  /\ load \in pendingLoads
  /\ Op(imageFailed(G, load), [name |-> "imageFailed"])

OutfitPreview(readback) ==
  /\ CanDraw
  /\ Op(captureOutfitPreview(G, readback), [name |-> "captureOutfitPreview"])

\* one sample of the lighting region: mid-gray
MidGray == Pixels(<<Gray(128)>>)

----------------------------------------------------------------------------
(* Spec: the detection session.  Camera start, detection results of camera *)
(* frames and of captured photos, capture and reset; the landmark sets     *)
(* are a close, a degenerate and a truncated detection.                    *)

Next ==
  \/ \E granted \in BOOLEAN : StartCameraResolved(granted)
  \/ CameraFrame
  \/ \E lm \in {FaceB, FaceZero, Truncate(FaceB, 300), Null} : OnResults(lm, MidGray)
  \/ CaptureClick
  \/ \E ok \in BOOLEAN : CaptureDecoded(ok)
  \/ \E lm \in {FaceB, Null} : CaptureResults(lm, MidGray)
  \/ ResetClick

Spec == Init /\ [][Next]_vars

----------------------------------------------------------------------------
(* SpecCalibration: the camera session alone, with every landmark set:     *)
(* the calibration references, the scale factors and the smoothed          *)
(* orientation over sequences of detections.                               *)

NextCalibration ==
  \/ \E granted \in BOOLEAN : StartCameraResolved(granted)
  \/ CameraFrame
  \/ \E lm \in AllFaces \cup {Null} : OnResults(lm, MidGray)

SpecCalibration == Init /\ [][NextCalibration]_vars

----------------------------------------------------------------------------
(* SpecOverlay: the camera session with product selection (a pair of       *)
(* glasses and an item of no fitted category; a product can be selected    *)
(* while the image of the previous one is still loading), image loads that *)
(* succeed or fail, the sliders and the display-refresh callbacks.         *)

OverlayScales == {Num(1), Num(2)}

OverlayOffsets == {Num(0), Q(1, 10)}

NextOverlay ==
  \/ \E granted \in BOOLEAN : StartCameraResolved(granted)
  \/ CameraFrame
  \/ \E lm \in {FaceA, Truncate(FaceA, 20), Null} : OnResults(lm, MidGray)
  \/ \E product \in {p \in Products : p.type \in {"glasses", "scarf"}} :
       ApplyProduct(product, MidGray, MaxLoads)
  \/ ClearProduct(MidGray)
  \/ \E load \in {p \in Products : p.type \in {"glasses", "scarf"}} : ImageLoaded(load, MidGray)
  \/ \E load \in {p \in Products : p.type \in {"glasses", "scarf"}} : ImageFailed(load)
  \/ \E v \in OverlayScales : ScaleInput(v, MidGray)
  \/ \E v \in OverlayOffsets : OffsetInput(v, MidGray)
  \/ AnimationFrame(MidGray)

SpecOverlay == Init /\ [][NextOverlay]_vars

----------------------------------------------------------------------------
(* SpecFitting: the camera session with products whose images load, and    *)
(* the sliders: the placements the fitting computes.                       *)

NextFitting ==
  \/ \E granted \in BOOLEAN : StartCameraResolved(granted)
  \/ CameraFrame
  \/ \E lm \in {FaceA, FaceB, Truncate(FaceA, 300), Truncate(FaceA, 20), Null} : OnResults(lm, MidGray)
  \/ \E product \in Products : ApplyProduct(product, MidGray, MaxLoads - 1)
  \/ \E load \in Products : ImageLoaded(load, MidGray)
  \/ \E v \in OverlayScales : ScaleInput(v, MidGray)
  \/ \E v \in OverlayOffsets : OffsetInput(v, MidGray)

SpecFitting == Init /\ [][NextFitting]_vars

----------------------------------------------------------------------------
(* SpecLighting: the camera session with one product and every outcome of  *)
(* the pixel readback of the lighting sample.                              *)

GlassesOnly == {[src |-> "glasses.png", type |-> "glasses"]}

NextLighting ==
  \/ \E granted \in BOOLEAN : StartCameraResolved(granted)
  \/ CameraFrame
  \/ \E lm \in {FaceA, Null} : \E readback \in Readbacks : OnResults(lm, readback)
  \/ \E readback \in Readbacks : AnimationFrame(readback)
  \/ \E product \in GlassesOnly : ApplyProduct(product, MidGray, MaxLoads - 1)
  \/ \E load \in GlassesOnly : \E readback \in Readbacks : ImageLoaded(load, readback)

SpecLighting == Init /\ [][NextLighting]_vars

----------------------------------------------------------------------------
(* SpecReset: the camera session, capture and reset with a product         *)
(* selected and the size slider.                                           *)

NextReset ==
  \/ \E granted \in BOOLEAN : StartCameraResolved(granted)
  \/ CameraFrame
  \/ \E lm \in {FaceB, Null} : OnResults(lm, MidGray)
  \/ ScaleInput(Num(2), MidGray)
  \/ CaptureClick
  \/ \E ok \in BOOLEAN : CaptureDecoded(ok)
  \/ \E lm \in {FaceA, Null} : CaptureResults(lm, MidGray)
  \/ ResetClick
  \/ \E product \in GlassesOnly : ApplyProduct(product, MidGray, MaxLoads - 1)
  \/ \E load \in GlassesOnly : ImageLoaded(load, MidGray)

SpecReset == Init /\ [][NextReset]_vars

----------------------------------------------------------------------------
(* SpecSched: the scheduling of draw callbacks.  Every handler that calls  *)
(* draw(), the capture / reset cycle and the display-refresh callbacks,    *)
(* with one landmark set.                                                  *)

NextSched ==
  \/ \E granted \in BOOLEAN : StartCameraResolved(granted)
  \/ CameraFrame
  \/ \E lm \in {FaceA, Null} : OnResults(lm, MidGray)
  \/ CaptureClick
  \/ \E ok \in BOOLEAN : CaptureDecoded(ok)
  \/ \E lm \in {FaceA, Null} : CaptureResults(lm, MidGray)
  \/ ResetClick
  \/ AnimationFrame(MidGray)
  \/ \E v \in OverlayScales : ScaleInput(v, MidGray)
  \/ OutfitPreview(MidGray)

SpecSched == Init /\ [][NextSched]_vars

----------------------------------------------------------------------------
(* SpecInit: start-up with the detector script loaded or still loading,    *)
(* the poll of initFaceMesh, and the camera session that follows. A timer  *)
(* that is due is run by the event loop, hence the weak fairness.          *)

\* a setTimeout(initFaceMesh, 100) timer fires
InitFaceMeshTimer ==
  /\ timeouts > 0
  /\ FaceMesh \/ polls < MaxPolls
  /\ Op(initFaceMesh([G EXCEPT !.timeouts = timeouts - 1]), [name |-> "initFaceMesh"])

\* the detector script finishes loading and defines FaceMesh
FaceMeshLoaded ==
  /\ ~FaceMesh
  /\ Op([G EXCEPT !.FaceMesh = TRUE], [name |-> "scriptLoaded"])

NextInit ==
  \/ InitFaceMeshTimer
  \/ FaceMeshLoaded
  \/ \E granted \in BOOLEAN : StartCameraResolved(granted)
  \/ CameraFrame
  \/ \E lm \in {FaceA, FaceB, Null} : OnResults(lm, MidGray)

SpecInit == InitLoad /\ [][NextInit]_vars /\ WF_vars(InitFaceMeshTimer)

----------------------------------------------------------------------------
(* Calibration (Spec)                                                      *)

IsResults(op) == op.name \in {"onResults", "captureResults"}

References == <<referenceEyeDistance, referenceFaceWidth, referenceFaceSize>>

Types == Categories \cup {"", "scarf", "necklace"}

\* C1: across an onResults that carries a face, every calibration reference that
\* has been captured (is not null) keeps exactly its value, whatever the value.
C1_ReferencesKept ==
  [][(IsResults(lastOp') /\ lastOp'.face) =>
       /\ referenceEyeDistance # Null => referenceEyeDistance' = referenceEyeDistance
       /\ referenceFaceWidth # Null => referenceFaceWidth' = referenceFaceWidth
       /\ referenceFaceSize # Null => referenceFaceSize' = referenceFaceSize]_vars

\* the references a frame yields when none is set
Measured(landmarks, cv) ==
  LET leftEye == getLandmark(landmarks, 33, cv.width, cv.height)
      rightEye == getLandmark(landmarks, 263, cv.width, cv.height)
      faceLeft == getLandmark(landmarks, 234, cv.width, cv.height)
      faceRight == getLandmark(landmarks, 454, cv.width, cv.height)
  IN  <<IF leftEye # Null /\ rightEye # Null THEN calculateDistance(leftEye, rightEye) ELSE Null,
        IF faceLeft # Null /\ faceRight # Null THEN calculateDistance(faceLeft, faceRight) ELSE Null,
        FaceSize(calculateFaceBox(landmarks, cv.width, cv.height))>>

\* C2: an onResults without a face (camera or still-image mode) leaves the three
\* references null and null landmarks, for which calculateOverlayPosition returns
\* null for every type; the next onResults with a face stores the measurements of
\* that very frame.
C2_FaceLossClears ==
  [][/\ (IsResults(lastOp') /\ ~lastOp'.face) =>
          /\ References' = <<Null, Null, Null>>
          /\ detectedLandmarks' = Null
          /\ \A t \in Types :
               calculateOverlayPosition(G, t, detectedLandmarks', Num(100), Num(50)) = Null
     /\ (IsResults(lastOp') /\ lastOp'.face /\ References = <<Null, Null, Null>>
           /\ detectedLandmarks = Null) =>
          References' = Measured(detectedLandmarks', canvas)]_vars

\* a face was lost after having been detected, in still-image mode
C2_Witness ==
  /\ IsResults(lastOp) /\ ~lastOp.face
  /\ faceFrames > 0
  /\ isUsingUploadedImage
  /\ References = <<Null, Null, Null>>

InRange(lo, v, hi) == Le(lo, v) /\ Le(v, hi)

\* C3: in every reachable state and for every landmark set, the eye-distance and
\* face-width scales lie in [0.4, 2.5] and the distance scale in [0.5, 2.0]; they
\* are 1.0 when there are no landmarks or no reference.
C3_ScalesClamped ==
  \A lm \in AllFaces \cup {Null, detectedLandmarks} :
    LET g == [G EXCEPT !.detectedLandmarks = lm]
        eyeScale == calculateEyeDistanceScale(g)
        faceScale == calculateFaceWidthScale(g)
        distanceScale == calculateDistanceScale(g)
    IN  /\ InRange(Q(4, 10), eyeScale, Q(25, 10))
        /\ InRange(Q(4, 10), faceScale, Q(25, 10))
        /\ InRange(Q(5, 10), distanceScale, Num(2))
        /\ (lm = Null \/ References = <<Null, Null, Null>>) =>
             eyeScale = Num(1) /\ faceScale = Num(1) /\ distanceScale = Num(1)

\* the current eye distance is 100 times the reference and the scale is 2.5
C3_Witness ==
  /\ detectedLandmarks = FaceB
  /\ Truthy(referenceEyeDistance)
  /\ Mul(referenceEyeDistance, Num(100)) =
       calculateDistance(getLandmark(FaceB, 33, canvas.width, canvas.height),
                         getLandmark(FaceB, 263, canvas.width, canvas.height))
  /\ calculateEyeDistanceScale(G) = Q(25, 10)

Between(a, v, b) == (Le(a, v) /\ Le(v, b)) \/ (Le(b, v) /\ Le(v, a))

Contracts(s, s1, r) ==
  /\ Le(MathAbs(Sub(s1, r)), MathAbs(Sub(s, r)))
  /\ Between(s, s1, r)

\* C7: on every frame that goes through the smoothing, each smoothed axis moves
\* towards the raw value r of the frame: |s' - r| <= |s - r| and s' lies between s
\* and r.
C7_SmoothingContracts ==
  [][(IsResults(lastOp') /\ lastOp'.face /\ detectedLandmarks'.len >= MinLandmarks) =>
       LET raw == RawRotation(detectedLandmarks', canvas)
       IN  /\ Contracts(faceRotation.roll, faceRotation'.roll, raw.roll)
           /\ Contracts(faceRotation.pitch, faceRotation'.pitch, raw.pitch)
           /\ Contracts(faceRotation.yaw, faceRotation'.yaw, raw.yaw)]_vars

\* the same rolled face on two frames in a row: raw roll 1/2 (a quarter turn),
\* smoothed 0 -> 3/20 -> 51/200
C7_Witness ==
  /\ IsResults(lastOp) /\ lastOp.face
  /\ faceFrames = 2
  /\ detectedLandmarks = FaceB
  /\ faceRotation.roll = Q(51, 200)

----------------------------------------------------------------------------
(* Overlay fitting and the draw cycle (SpecOverlay)                        *)

\* C4: every placement computed in a draw cycle keeps the aspect ratio of the
\* asset: height * assetWidth = assetHeight * width.
C4_AspectKept ==
  \A i \in DOMAIN drawLog :
    drawLog[i].pos # Null =>
      NumEq(Mul(drawLog[i].pos.height, drawLog[i].imgWidth),
            Mul(drawLog[i].imgHeight, drawLog[i].pos.width))

Calibration == <<referenceEyeDistance, referenceFaceWidth, referenceFaceSize, faceRotation>>

\* C5: calculateOverlayPosition returns null without landmarks, and for every type
\* that is no category whatever the landmarks; a draw cycle whose fit returned null
\* for such a type leaves calibration and orientation as they were, and the
\* lighting state too unless the cycle took its lighting sample.
C5_NullPlacement ==
  [][/\ \A t \in Types : calculateOverlayPosition(G', t, Null, Num(100), Num(50)) = Null
     /\ \A t \in Types \ Categories : \A lm \in AllFaces :
          calculateOverlayPosition(G', t, lm, Num(100), Num(50)) = Null
     /\ overlayType' \notin Categories =>
          \A i \in DOMAIN drawLog' : drawLog'[i].pos = Null
     /\ (lastOp'.name \in {"scaleInput", "offsetInput", "imageLoaded", "draw"}
           /\ overlayType' \notin Categories) =>
          /\ Calibration' = Calibration
          /\ (\A i \in DOMAIN drawLog' : ~drawLog'[i].sampled) =>
               lightingAnalysis' = lightingAnalysis /\ targetLighting' = targetLighting]_vars

\* the draw of an image load with a face and an image whose type is no category:
\* the fit ran and returned null
C5_Witness ==
  /\ lastOp.name = "imageLoaded"
  /\ detectedLandmarks = FaceA
  /\ overlayType = "scarf"
  /\ Len(drawLog) = 1
  /\ drawLog[1].fitted
  /\ drawLog[1].pos = Null

\* the two landmarks the primary path of a category measures
PrimaryPoints(t) == IF t = "glasses" THEN <<33, 263>> ELSE <<234, 454>>

\* the multipliers as the specification states them
StatedMultiplier(t) ==
  CASE t = "glasses" -> Q(22, 10) [] t = "hat" -> Q(16, 10) [] t = "shirt" -> Q(24, 10)

\* C6: on the draw of an onResults with a face, on the primary path, the placement
\* width is primaryDistance * multiplier * userScale * s and centerX is the midpoint
\* of the two primary landmarks, where s = 1.0 when the frame captures the
\* reference (it was null before) and the clamped current / reference ratio on
\* later frames.
C6_PrimaryWidth ==
  [][(IsResults(lastOp') /\ lastOp'.face /\ drawLog' # <<>> /\ drawLog'[1].pos # Null) =>
       LET t == overlayType
           lm == detectedLandmarks'
           a == getLandmark(lm, PrimaryPoints(t)[1], canvas.width, canvas.height)
           b == getLandmark(lm, PrimaryPoints(t)[2], canvas.width, canvas.height)
           before == IF t = "glasses" THEN referenceEyeDistance ELSE referenceFaceWidth
           after == IF t = "glasses" THEN referenceEyeDistance' ELSE referenceFaceWidth'
           primaryDistance == calculateDistance(a, b)
           s == IF before = Null \/ ~Truthy(after) THEN Num(1)
                ELSE MathMax(Q(4, 10), MathMin(Q(25, 10), Div(primaryDistance, after)))
           pos == drawLog'[1].pos
       IN  (a # Null /\ b # Null) =>
             /\ pos.width = Mul(Mul(Mul(primaryDistance, StatedMultiplier(t)), overlayScale), s)
             /\ pos.centerX = Div(Add(a.x, b.x), Num(2))]_vars

\* Scenario A on the camera canvas: first calibration, glasses, user scale 1, outer
\* eye corners at x = 144 and 216: eye distance 72, width 72 * 2.2 = 792/5,
\* centerX 180
C6_Witness ==
  /\ lastOp.name = "onResults" /\ lastOp.face
  /\ faceFrames = 1
  /\ detectedLandmarks = FaceA
  /\ overlayType = "glasses"
  /\ overlayScale = Num(1)
  /\ drawLog # <<>>
  /\ drawLog[1].pos # Null
  /\ drawLog[1].pos.width = Q(792, 5)
  /\ drawLog[1].pos.centerX = Num(180)

\* C10: no draw cycle ends in an exception, and every draw cycle of camera mode
\* reaches requestAnimationFrame(draw).
C10_DrawsComplete ==
  /\ ~exc
  /\ \A i \in DOMAIN drawLog :
       /\ drawLog[i].overlay # "threw"
       /\ ~drawLog[i].still => drawLog[i].scheduled

----------------------------------------------------------------------------
(* Draw scheduling (SpecSched)                                             *)

Loops == {i \in DOMAIN rafQueue : rafQueue[i].fn = "drawLoop"}

\* C8: at most one still-image draw loop is scheduled, and no loop is rescheduled
\* after the session it was started for has ended by resetToCamera.
C8_OneLoop ==
  /\ Cardinality(Loops) <= 1
  /\ \A i \in Loops : ~rafQueue[i].late

\* C9: in camera mode at most one draw callback is pending.
C9_OnePending ==
  ~isUsingUploadedImage => Cardinality({i \in DOMAIN rafQueue : rafQueue[i].fn = "draw"}) <= 1

----------------------------------------------------------------------------
(* Image loads and the overlay step (SpecOverlay)                          *)

\* C11: a draw cycle draws the overlay only when the current overlay image has
\* loaded; while it is loading or after its load has failed the cycle omits the
\* overlay (and completes).
C11_OverlayOnlyLoaded ==
  \A i \in DOMAIN drawLog :
    /\ drawLog[i].overlay = "drawn" => overlayImg # Null /\ overlayImg.state = "loaded"
    /\ (overlayImg # Null /\ overlayImg.state # "loaded") => drawLog[i].overlay = "skipped"

----------------------------------------------------------------------------
(* Lighting (SpecLighting)                                                 *)

FailedReadbacks == {Throws, Pixels(<<>>)}

\* C12: a draw cycle whose lighting sample fails (the readback throws, or the
\* region has no pixels) leaves the smoothed lighting state as it was and goes on
\* to the overlay step: the overlay condition is evaluated, a loaded overlay of a
\* category is drawn, and no exception leaves the cycle.
C12_FailedSampleKeepsLighting ==
  [][\A i \in DOMAIN drawLog' :
       (drawLog'[i].sampled /\ drawLog'[i].readback \in FailedReadbacks) =>
         /\ lightingAnalysis' = lightingAnalysis
         /\ ~exc'
         /\ drawLog'[i].fitted = (/\ overlayImg' # Null
                                  /\ ImgComplete(overlayImg')
                                  /\ overlaySrc' # ""
                                  /\ detectedLandmarks' # Null)
         /\ (drawLog'[i].fitted /\ overlayImg'.state = "loaded"
               /\ overlayType' \in Categories) => drawLog'[i].overlay = "drawn"]_vars

\* a cycle whose readback threw, after an earlier sample had moved the lighting
\* state, drew the overlay
C12_Witness ==
  /\ drawLog # <<>>
  /\ drawLog[1].sampled
  /\ drawLog[1].readback = Throws
  /\ lightingAnalysis # InitialLighting
  /\ lightingAnalysis # targetLighting
  /\ drawLog[1].overlay = "drawn"

----------------------------------------------------------------------------
(* Reset to camera mode (Spec, SpecReset)                                  *)

\* C13: resetToCamera leaves the three references null and the mode flag on
\* camera, and a null reference becomes non-null only in an onResults with a face.
C13_ResetClearsReferences ==
  [][/\ lastOp'.name = "resetToCamera" =>
          References' = <<Null, Null, Null>> /\ ~isUsingUploadedImage'
     /\ \A k \in 1..3 :
          (References[k] = Null /\ References'[k] # Null) =>
            IsResults(lastOp') /\ lastOp'.face]_vars

\* a reset right after a photo in which a face was detected
C13_Witness ==
  /\ lastOp.name = "resetToCamera"
  /\ detectedLandmarks # Null
  /\ References = <<Null, Null, Null>>
  /\ ~isUsingUploadedImage

\* C14: the overlay selection (source, category, image) is the same right after
\* resetToCamera as right before it.
C14_OverlayPersists ==
  [][lastOp'.name = "resetToCamera" =>
       /\ overlaySrc' = overlaySrc
       /\ overlayType' = overlayType
       /\ overlayImg' = overlayImg]_vars


(***************************************************************************)
(* Detection requests in flight (Spec)                                     *)
(***************************************************************************)

\* C15: at every moment at most one faceMesh.send is unresolved, whatever the
\* interleaving of camera frames, capture clicks and resets.
C15_OneSendInFlight == sends.camera + sends.capture <= 1


(***************************************************************************)
(* Lighting targets of a uniformly gray sample (SpecLighting)              *)
(***************************************************************************)

\* the level of a buffer whose pixels all have R = G = B = v, or -1
GrayLevel(data) ==
  IF data # <<>> /\ \A i \in DOMAIN data : data[i] = Gray(data[1][1]) THEN data[1][1] ELSE -1

\* C16: a sample region uniformly gray at level v gives brightness target
\* clamp(v / 128, 0.5, 1.5), contrast target 0.9, saturation target 0.9 and
\* temperature target 6000, for every v in 0..255.
C16_GrayTargets ==
  \A i \in DOMAIN drawLog :
    (/\ i = Len(drawLog)
     /\ drawLog[i].sampled
     /\ drawLog[i].readback \notin FailedReadbacks
     /\ GrayLevel(drawLog[i].readback.data) >= 0) =>
      /\ targetLighting.brightness
           = Clamp(Q(5, 10), Q(15, 10), Q(GrayLevel(drawLog[i].readback.data), 128))
      /\ targetLighting.contrast = Q(9, 10)
      /\ targetLighting.saturation = Q(9, 10)
      /\ targetLighting.temperature = Num(6000)


----------------------------------------------------------------------------
(* Pure functions called on their own (SpecGeometry).  A call leaves       *)
(* the program state alone; lastOp records its arguments and its result.   *)
(* The fields of these records are written in the order TLC keeps them in. *)

\* a face partly outside the frame: normalised coordinates below 0 and above 1
FaceOut == Face(468, W(-64, 672), W(64, 768), W(192, 864), W(64, 672), W(0, 736), W(32, 736),
                W(64, 864), W(-64, 768), W(128, 736), W(96, 736), W(192, 768))

GeometryFaces ==
  AllFaces \cup {FaceOut, Truncate(FaceOut, 3), Truncate(FaceA, 1), Truncate(FaceA, 0)}

Pt(x, y) == [x |-> Num(x), y |-> Num(y)]

\* canvas points at whole distances of each other, and an absent landmark
GeometryPoints == {Null, Pt(0, 0), Pt(6, 0), Pt(0, 8), Pt(6, 8), Pt(3, 4)}

Applied(op) == Becomes([G EXCEPT !.lastOp = op, !.drawLog = drawLog, !.exc = exc])

GetLandmarkCall(landmarks, index, c) ==
  Applied([landmarks |-> landmarks, index |-> index, canvas |-> c, name |-> "getLandmark",
           result |-> getLandmark(landmarks, index, c.width, c.height)])

CalculateDistanceCall(p1, p2) ==
  Applied([p1 |-> p1, p2 |-> p2, name |-> "calculateDistance",
           result |-> calculateDistance(p1, p2)])

CalculateFaceBoxCall(landmarks, c) ==
  Applied([landmarks |-> landmarks, canvas |-> c, name |-> "calculateFaceBox",
           result |-> calculateFaceBox(landmarks, c.width, c.height)])

\* drawRotatedOverlay with the lighting state of the caller's choice
DrawRotatedOverlayCall(lighting) ==
  Applied([name |-> "drawRotatedOverlay",
           result |-> overlayLighting([G EXCEPT !.lightingAnalysis = lighting]),
           lighting |-> lighting])

NextGeometry ==
  \* indices in range, below 0, at the length of a full set and above it
  \/ \E landmarks \in GeometryFaces \cup {Null}, index \in KeyIdx \cup {-1, -468, 468, 500},
        c \in {CameraCanvas, VideoCanvas} : GetLandmarkCall(landmarks, index, c)
  \/ \E p1 \in GeometryPoints, p2 \in GeometryPoints : CalculateDistanceCall(p1, p2)
  \/ \E landmarks \in GeometryFaces, c \in {CameraCanvas, VideoCanvas} :
       CalculateFaceBoxCall(landmarks, c)
  \* temperatures at the ends of the range, at both sides of the deadband, and NaN
  \/ \E t \in {Num(6000), Num(6174), Num(6175), Num(6500), Num(6825), Num(6826), Num(8000), NaN},
        enabled \in BOOLEAN :
       DrawRotatedOverlayCall([InitialLighting EXCEPT !.temperature = t, !.enabled = enabled])

SpecGeometry == Init /\ [][NextGeometry]_vars

\* C17: for every non-empty landmark set calculateFaceBox returns width >= 0 and
\* height >= 0 and a box that contains the scaled point of every landmark; when
\* all coordinates are in [0,1] some landmark lies on each of the four sides.
C17_BoxContainsLandmarks ==
  (lastOp.name = "calculateFaceBox" /\ lastOp.landmarks.len > 0) =>
    LET box == lastOp.result
        lm == lastOp.landmarks
        In == {i \in KeyIdx : i < lm.len}
        px(i) == Mul(lm.pts[i].x, Num(lastOp.canvas.width))
        py(i) == Mul(lm.pts[i].y, Num(lastOp.canvas.height))
        unit == \A i \in In : /\ Le(Num(0), lm.pts[i].x) /\ Le(lm.pts[i].x, Num(1))
                              /\ Le(Num(0), lm.pts[i].y) /\ Le(lm.pts[i].y, Num(1))
    IN  /\ Le(Num(0), box.width)
        /\ Le(Num(0), box.height)
        /\ \A i \in In : /\ Le(box.x, px(i)) /\ Le(px(i), Add(box.x, box.width))
                         /\ Le(box.y, py(i)) /\ Le(py(i), Add(box.y, box.height))
        /\ unit => /\ \E i \in In : px(i) = box.x
                   /\ \E i \in In : px(i) = Add(box.x, box.width)
                   /\ \E i \in In : py(i) = box.y
                   /\ \E i \in In : py(i) = Add(box.y, box.height)

\* the box of a face partly outside the frame contains it without being tight
C17_Witness ==
  /\ lastOp.name = "calculateFaceBox"
  /\ lastOp.landmarks = FaceOut
  /\ Lt(lastOp.result.x, Num(0))
  /\ lastOp.result.y = Num(lastOp.canvas.height)
  /\ Lt(Num(0), lastOp.result.height)


\* C18: calculateDistance(p, p) = 0, calculateDistance(a, b) = calculateDistance(b, a),
\* and the result is 0 (no exception) when either argument is null.
C18_DistanceSymmetric ==
  lastOp.name = "calculateDistance" =>
    /\ lastOp.result = calculateDistance(lastOp.p2, lastOp.p1)
    /\ lastOp.p1 = lastOp.p2 => lastOp.result = Num(0)
    /\ (lastOp.p1 = Null \/ lastOp.p2 = Null) => lastOp.result = Num(0)
    /\ IsFinite(lastOp.result) /\ Le(Num(0), lastOp.result)

\* a call with a point and null, in this order
C18_Witness ==
  /\ lastOp.name = "calculateDistance"
  /\ lastOp.p1 = Pt(6, 8)
  /\ lastOp.p2 = Null
  /\ lastOp.result = Num(0)

\* C19: getLandmark returns null, without throwing, when the landmark set is absent
\* or the index is outside 0..length-1 (at or above the length, or below 0); inside
\* the range it returns (x * canvasWidth, y * canvasHeight) of that landmark.
C19_GetLandmarkTotal ==
  lastOp.name = "getLandmark" =>
    IF lastOp.landmarks = Null \/ lastOp.index \notin 0..(lastOp.landmarks.len - 1)
    THEN lastOp.result = Null
    ELSE lastOp.result = [x |-> Mul(lastOp.landmarks.pts[lastOp.index].x,
                                    Num(lastOp.canvas.width)),
                          y |-> Mul(lastOp.landmarks.pts[lastOp.index].y,
                                    Num(lastOp.canvas.height))]


----------------------------------------------------------------------------
(* calculateOverlayPosition called on its own in the states of a camera    *)
(* session (SpecPlacement).  draw() passes the global detectedLandmarks;   *)
(* the call does the same with a landmark set of its own choice.           *)

\* FaceA cut after each index the program reads: every set of missing landmarks an
\* array length can produce, from all of 1, 10, 33, ... missing to none
PlacementFaces ==
  {Truncate(FaceA, len) : len \in {1, 2, 11, 34, 134, 176, 235, 264, 363, 455, 468}}
    \cup {FaceB, Truncate(FaceB, 11), FaceZero, [FaceA EXCEPT !.pts[10] = W(320, 0)]}

CalculateOverlayPositionCall(type, landmarks, img) ==
  /\ camera # Null
  /\ Applied([landmarks |-> landmarks, type |-> type, img |-> img,
              name |-> "calculateOverlayPosition",
              result |-> calculateOverlayPosition([G EXCEPT !.detectedLandmarks = landmarks],
                                                  type, landmarks, Num(img.width),
                                                  Num(img.height))])

NextPlacement ==
  \/ \E granted \in BOOLEAN : StartCameraResolved(granted)
  \/ CameraFrame
  \/ OnResults(FaceA, MidGray)
  \/ \E type \in Categories \cup {"scarf"}, landmarks \in PlacementFaces,
        src \in {"glasses.png", "shirt.png"} :
       CalculateOverlayPositionCall(type, landmarks,
                                    [width |-> AssetWidth(src), height |-> AssetHeight(src)])

SpecPlacement == Init /\ [][NextPlacement]_vars

PlacementFields == {"x", "y", "width", "height", "centerX", "centerY"}

\* C20: for every recognised category and every present landmark set of any length
\* calculateOverlayPosition returns a non-null Placement whose six fields are all
\* defined, and does not throw: a missing landmark selects a fallback path.
C20_PlacementTotal ==
  (lastOp.name = "calculateOverlayPosition" /\ lastOp.type \in Categories) =>
    /\ lastOp.result # Null
    /\ lastOp.result # TypeError
    /\ DOMAIN lastOp.result = PlacementFields
    /\ \A f \in PlacementFields : lastOp.result[f] # Null /\ IsFinite(lastOp.result[f])

\* a shirt on a set that ends before the jaw landmarks, placed from the face box
\* after the session was calibrated
C20_Witness ==
  /\ lastOp.name = "calculateOverlayPosition"
  /\ lastOp.type = "shirt"
  /\ lastOp.landmarks = Truncate(FaceA, 11)
  /\ referenceFaceSize # Null
  /\ lastOp.result # Null
  /\ Lt(Num(0), lastOp.result.width)


----------------------------------------------------------------------------
(* Source switches (Spec)                                                  *)

\* C21: every switch of source ends the calibration session: after a capture as
\* well as after a reset the three references are null (until the first detection
\* with a face on the new source).
C21_SwitchClearsReferences ==
  [][lastOp'.name \in {"capture", "resetToCamera"} => References' = <<Null, Null, Null>>]_vars


----------------------------------------------------------------------------
(* Draw loops across a source switch (SpecSched)                           *)

\* C22: in still-image mode the camera is stopped and no draw() schedules
\* requestAnimationFrame(draw); and after a reset to camera mode a callback of the
\* previous still-image loop schedules no further drawing.
C22_LoopsEndWithTheirMode ==
  [][/\ isUsingUploadedImage' => camera' = Null
     /\ \A i \in DOMAIN drawLog' : drawLog'[i].still => ~drawLog'[i].scheduled
     /\ (lastOp'.name = "drawLoop" /\ ~isUsingUploadedImage) => rafQueue' = Tail(rafQueue)]_vars


----------------------------------------------------------------------------
(* Lighting throttle (Spec)                                                *)

\* the value of frameCount at cycle i of a handler's log: one more for every
\* earlier cycle that drew the background
CounterAt(log, i, before) == before + Cardinality({j \in 1..(i - 1) : log[j].background})

C24_SamplesWithoutFace ==
  [][\A i \in DOMAIN drawLog' :
       (/\ drawLog'[i].background
        /\ lightingAnalysis.enabled
        /\ CounterAt(drawLog', i, frameCount) % (IF drawLog'[i].still THEN 5 ELSE 3) = 0) =>
         drawLog'[i].sampled]_vars


----------------------------------------------------------------------------
(* The steps of a draw cycle (SpecOverlay)                                 *)

----------------------------------------------------------------------------
(* Orientation state (SpecCalibration, Spec, SpecOverlay)                  *)

\* C26: on every onResults with a face, for a landmark set of any length, each
\* axis becomes 0.7 * previous + 0.3 * raw, where raw is 0 for an axis whose
\* points are missing; the state is never set directly to zero.
C26_AlwaysSmoothed ==
  [][(IsResults(lastOp') /\ lastOp'.face) =>
       faceRotation' = smoothRotation(faceRotation, RawRotation(detectedLandmarks', canvas'))]_vars


C28_RotationOnlyOnFace ==
  [][faceRotation' # faceRotation => (IsResults(lastOp') /\ lastOp'.face)]_vars

C28_Witness ==
  /\ lastOp.name = "resetToCamera"
  /\ overlayScale = Num(2)
  /\ faceRotation.roll # Num(0)

\* C29: while FaceMesh is undefined an invocation of initFaceMesh arms exactly
\* one poll and neither registers onResults nor calls startCamera; once
\* FaceMesh is defined initialisation completes, and the registration and the
\* call of startCamera happen exactly once.
C29_PollThenInitOnce ==
  /\ [][/\ (lastOp'.name = "initFaceMesh" /\ ~FaceMesh) =>
             /\ timeouts = 1 /\ timeouts' = 1
             /\ polls' = polls + 1
             /\ faceMesh' = Null /\ starts' = 0 /\ camera' = Null
        /\ (lastOp'.name = "initFaceMesh" /\ FaceMesh) =>
             /\ faceMesh = Null /\ faceMesh' = [instance |-> 1, onResults |-> 1]
             /\ starts = 0 /\ starts' = 1
             /\ timeouts' = 0
        /\ (faceMesh' # faceMesh \/ starts' > starts) =>
             (lastOp'.name = "initFaceMesh" /\ FaceMesh)]_vars
  /\ [](faceMesh = Null => (timeouts = 1 /\ starts = 0 /\ camera = Null))
  /\ (FaceMesh ~> (faceMesh # Null /\ timeouts = 0))

C29_Witness ==
  /\ lastOp.name = "initFaceMesh"
  /\ polls = 3
  /\ faceMesh = [instance |-> 1, onResults |-> 1]
  /\ starts = 1
  /\ timeouts = 0

\* C30: a startCamera whose getUserMedia fails sets the error status, creates
\* no camera, submits no detection request and schedules no draw loop; no
\* startCamera is called again except by the reset handler, and without one
\* the session stays without camera.
C30_FailedStartIsTerminal ==
  [][/\ (lastOp'.name = "startCamera" /\ ~lastOp'.granted) =>
          /\ status' = "Camera error"
          /\ camera' = camera
          /\ sends' = sends
          /\ rafQueue' = rafQueue
          /\ starts' = starts - 1
          /\ timeouts' = timeouts
     /\ starts' > starts => lastOp'.name = "resetToCamera"
     /\ (camera = Null /\ starts = 0 /\ lastOp'.name # "resetToCamera") =>
          (camera' = Null /\ starts' = 0)]_vars

C30_Witness ==
  /\ lastOp.name = "startCamera"
  /\ ~lastOp.granted
  /\ epoch = 1
  /\ status = "Camera error"
  /\ camera = Null
  /\ ~isUsingUploadedImage
  /\ starts = 0


----------------------------------------------------------------------------
(* The calibration factor of a placement (SpecPlacement)                   *)

\* the width calculateOverlayPosition is stated to return: with the primary pair
\* the measured distance times the direct factor, without it the face-box width
\* times the inverse factor; a reference that is not set gives the factor 1
StatedWidth(t, landmarks) ==
  LET a == getLandmark(landmarks, PrimaryPoints(t)[1], canvas.width, canvas.height)
      b == getLandmark(landmarks, PrimaryPoints(t)[2], canvas.width, canvas.height)
      reference == IF t = "glasses" THEN referenceEyeDistance ELSE referenceFaceWidth
      faceBox == calculateFaceBox(landmarks, canvas.width, canvas.height)
      direct == IF Truthy(reference)
                THEN MathMax(Q(4, 10), MathMin(Q(25, 10), Div(calculateDistance(a, b), reference)))
                ELSE Num(1)
      inverse == IF Truthy(referenceFaceSize)
                 THEN MathMax(Q(5, 10), MathMin(Num(2), Div(referenceFaceSize, FaceSize(faceBox))))
                 ELSE Num(1)
      base == IF t = "glasses" THEN Mul(faceBox.width, Q(6, 10)) ELSE faceBox.width
  IN  IF a # Null /\ b # Null
      THEN [factor |-> direct,
            width |-> Mul(Mul(Mul(calculateDistance(a, b), StatedMultiplier(t)), overlayScale),
                          direct)]
      ELSE [factor |-> inverse,
            width |-> Mul(Mul(Mul(base, StatedMultiplier(t)), overlayScale), inverse)]

\* C31: calculateOverlayPosition sizes a placement with the direct factor
\* clamp(current / reference, 0.4, 2.5) exactly when the primary landmark pair of
\* the category is present, and with the inverse factor
\* clamp(referenceFaceSize / currentFaceSize, 0.5, 2.0) on the face-box width
\* exactly when it is absent; never with both and never with none.
C31_OneFactor ==
  (lastOp.name = "calculateOverlayPosition" /\ lastOp.type \in Categories) =>
    /\ lastOp.result # Null
    /\ lastOp.result.width = StatedWidth(lastOp.type, lastOp.landmarks).width

\* a hat on a close face whose array ends before the temples, in a session
\* calibrated on FaceA: the face box is twice the reference, the factor 1/2
C31_Witness ==
  /\ lastOp.name = "calculateOverlayPosition"
  /\ lastOp.type = "hat"
  /\ lastOp.landmarks = Truncate(FaceB, 11)
  /\ referenceFaceSize = Num(240) /\ referenceFaceWidth = Num(144)
  /\ StatedWidth("hat", lastOp.landmarks).factor = Q(1, 2)
  /\ lastOp.result.width = Q(1152, 5)


----------------------------------------------------------------------------
(* The rotation pivot of a placement (SpecPlacement)                       *)

\* the anchor height the category path of calculateOverlayPosition computes
StatedAnchorY(t, landmarks) ==
  LET P(i) == getLandmark(landmarks, i, canvas.width, canvas.height)
      faceBox == calculateFaceBox(landmarks, canvas.width, canvas.height)
      low == Add(faceBox.y, Mul(faceBox.height, Q(6, 10)))
  IN  CASE t = "glasses" ->
             IF P(33) # Null /\ P(263) # Null
             THEN IF P(133) # Null /\ P(362) # Null
                  THEN Div(Add(Div(Add(P(33).y, P(133).y), Num(2)),
                               Div(Add(P(263).y, P(362).y), Num(2))), Num(2))
                  ELSE Div(Add(P(33).y, P(263).y), Num(2))
             ELSE Add(faceBox.y, Mul(faceBox.height, Q(25, 100)))
        [] t = "hat" ->
             IF P(234) # Null /\ P(454) # Null
             THEN IF P(10) # Null THEN P(10).y
                  ELSE IF P(33) # Null /\ P(263) # Null
                  THEN Sub(Div(Add(P(33).y, P(263).y), Num(2)), Mul(faceBox.height, Q(15, 100)))
                  ELSE faceBox.y
             ELSE faceBox.y
        [] t = "shirt" ->
             IF P(234) # Null /\ P(454) # Null
             THEN IF P(175) # Null THEN P(175).y
                  ELSE IF P(1) # Null THEN Add(P(1).y, Mul(faceBox.height, Q(3, 10)))
                  ELSE low
             ELSE low

\* C32: the rotation pivot of a returned placement is the anchor of its category
\* path, whatever the anchor's value (0 included): centerX is the middle of the
\* rectangle's width, which every path centres on the anchor, and centerY is the
\* anchor height.
C32_PivotIsAnchor ==
  (lastOp.name = "calculateOverlayPosition" /\ lastOp.type \in Categories) =>
    /\ lastOp.result # Null
    /\ lastOp.result.centerX = Add(lastOp.result.x, Div(lastOp.result.width, Num(2)))
    /\ lastOp.result.centerY = StatedAnchorY(lastOp.type, lastOp.landmarks)

\* C33: for a shirt, on every path (chin, chin estimated from the nose tip, and
\* both face-box fallbacks) the top of the placement is
\* centerY - 0.25 * height + overlayOffsetY * canvas.height.
C33_ShirtTop ==
  (lastOp.name = "calculateOverlayPosition" /\ lastOp.type = "shirt") =>
    /\ lastOp.result # Null
    /\ lastOp.result.y = Add(Sub(lastOp.result.centerY, Mul(lastOp.result.height, Q(25, 100))),
                             Mul(Num(canvas.height), overlayOffsetY))


----------------------------------------------------------------------------
(* The raw pitch (SpecCalibration)                                         *)

\* the second computation of the pitch, or 0 (in units of pi)
StatedPitch(landmarks, cv) ==
  LET P(i) == getLandmark(landmarks, i, cv.width, cv.height)
      eyeLevel == IF P(33) # Null /\ P(263) # Null
                  THEN Div(Add(P(33).y, P(263).y), Num(2))
                  ELSE P(1).y
  IN  IF P(10) # Null /\ P(175) # Null /\ P(1) # Null /\ Lt(P(10).y, P(175).y)
      THEN Mul(Div(Sub(P(1).y, eyeLevel), Sub(P(175).y, P(10).y)), Q(2, 10))
      ELSE Num(0)

\* C34: the raw pitch that enters the smoothing of a frame is
\* (noseTip.y - eyeLevel) / (chin.y - forehead.y) * 0.2 pi when forehead, chin and
\* nose tip are present and the chin is below the forehead, and 0 otherwise; the
\* value of the first computation (atan2 * 0.3) never enters the smoothing.
C34_SecondPitchOrZero ==
  [][(IsResults(lastOp') /\ lastOp'.face /\ detectedLandmarks'.len >= MinLandmarks) =>
       faceRotation'.pitch = Add(Mul(faceRotation.pitch, Q(7, 10)),
                                 Mul(StatedPitch(detectedLandmarks', canvas'), Q(3, 10)))]_vars

\* the first frame of FaceA: raw pitch (256 - 224) / (352 - 160) * 0.2 = 1/30
C34_Witness ==
  /\ lastOp.name = "onResults" /\ lastOp.face
  /\ faceFrames = 1
  /\ detectedLandmarks = FaceA
  /\ StatedPitch(detectedLandmarks, canvas) = Q(1, 30)
  /\ faceRotation.pitch = Q(1, 100)


----------------------------------------------------------------------------
(* The range of the lighting state (SpecLighting)                          *)

\* C35: after any sequence of lighting samples over any pixel contents (regions
\* whose red and blue sums are both 0 included) the smoothed lighting state is in
\* range: brightness in [0.5, 1.5], contrast in [0.8, 1.3], saturation in
\* [0.7, 1.3], temperature a number in [6000, 8000], and enabled as it was.
C35_LightingInRange ==
  /\ InRange(Q(5, 10), lightingAnalysis.brightness, Q(15, 10))
  /\ InRange(Q(8, 10), lightingAnalysis.contrast, Q(13, 10))
  /\ InRange(Q(7, 10), lightingAnalysis.saturation, Q(13, 10))
  /\ ~IsNaN(lightingAnalysis.temperature)
  /\ InRange(Num(6000), lightingAnalysis.temperature, Num(8000))
  /\ lightingAnalysis.enabled


----------------------------------------------------------------------------
(* The temperature tint of the overlay (SpecGeometry)                      *)

\* C36: drawRotatedOverlay fills the tint rectangle if and only if lighting is
\* enabled and |T - 6500| / 6500 > 0.05 (that is, |T - 6500| > 325); the tint is
\* the cool one exactly when T > 6500 and the warm one otherwise; its alpha is
\* 0.3 * |T - 6500| / 6500; with lighting disabled no filter and no tint are applied.
C36_TintOutsideDeadband ==
  lastOp.name = "drawRotatedOverlay" =>
    LET T == lastOp.lighting.temperature
        deviation == MathAbs(Sub(T, Num(6500)))
        tinted == lastOp.lighting.enabled /\ Lt(Num(325), deviation)
    IN  /\ (lastOp.result.tint # "none") <=> tinted
        /\ (lastOp.result.tint = "cool") <=> (tinted /\ Lt(Num(6500), T))
        /\ (lastOp.result.tint = "warm") <=> (tinted /\ ~Lt(Num(6500), T))
        /\ tinted => lastOp.result.alpha = Div(Mul(Q(3, 10), deviation), Num(6500))
        /\ lastOp.result.filter <=> lastOp.lighting.enabled

\* T = 6174, just outside the deadband on the warm side
C36_Witness ==
  /\ lastOp.name = "drawRotatedOverlay"
  /\ lastOp.lighting.enabled
  /\ lastOp.lighting.temperature = Num(6174)
  /\ lastOp.result.tint = "warm"
  /\ lastOp.result.alpha = Q(489, 32500)


----------------------------------------------------------------------------
(* The overlay asset as a whole (SpecOverlay)                              *)

\* C37: whenever an overlay is drawn, the category used for the fitting and the
\* recorded source are those of the image being drawn, which is the image of the
\* most recently selected product.
C37_AssetIsWhole ==
  \A i \in DOMAIN drawLog :
    drawLog[i].overlay = "drawn" =>
      /\ overlayImg # Null
      /\ overlaySrc = overlayImg.src
      /\ overlayType = overlayImg.type


----------------------------------------------------------------------------
(* A capture that fails (Spec)                                             *)

\* C38: once the capture handler has ended, by its last statement or in its
\* catch block, the session keeps rendering: the mode is camera, or the mode is
\* still-image with a still-image draw loop pending and the back-to-camera
\* control shown; it is never in still-image mode with the camera stopped, no
\* draw loop and no way back.
C38_KeepsRendering ==
  (decoding = 0 /\ sends.capture = 0) =>
    \/ ~isUsingUploadedImage
    \/ isUsingUploadedImage /\ Loops # {} /\ backBtnVisible

\* C39: the landmarks of a draw cycle are those of the source displayed: the
\* results of a camera frame that arrive while the still image is displayed
\* leave detectedLandmarks as it is and draw nothing, and resetToCamera
\* discards the landmarks detected on the still image.
C39_LandmarksOfDisplayedSource ==
  [][/\ (lastOp'.name = "onResults" /\ isUsingUploadedImage) =>
          (detectedLandmarks' = detectedLandmarks /\ drawLog' = <<>>)
     /\ lastOp'.name = "resetToCamera" => detectedLandmarks' = Null]_vars

====
